---- MODULE Spec2Model ----
(***************************************************************************)
(* ClockBlocked: alarm notification scheduling and challenge lifecycle.    *)
(*                                                                         *)
(* Instants are local wall-clock milliseconds counted from a Sunday        *)
(* 00:00:00.000; a day has DAY_MS milliseconds (no daylight-saving shift). *)
(* The document store (alarms, alarms_sent_out), the device notification   *)
(* registry and the zustand store are state variables; every await of an   *)
(* async handler is a step boundary, so handlers interleave as they do on  *)
(* the JavaScript event loop.                                              *)
(***************************************************************************)
EXTENDS Integers, Sequences, FiniteSets, TLC

VARIABLES
    now,               \* the device clock (Date.now())
    alarms,            \* collection "alarms": alarm id -> document (the domain is the set of existing documents)
    challenges,        \* collection "alarms_sent_out": sequence of documents, id = index
    registry,          \* scheduled local notifications: identifier -> fire instant, or None
    tray,              \* alarm ids of delivered notifications the user can still tap
    activeAlarmId,     \* useStore
    activeAlarmPhrase, \* useStore
    alarmStartTime,    \* useStore
    sentOutId,         \* useStore
    attempts,          \* AlarmVerificationModal local state
    alertShown,        \* an Alert.alert dialog with an OK button is on screen
    handlers,          \* in-flight handleNotificationAction calls
    resolvers,         \* in-flight handleSubmit / handleTimeout calls
    lastLogged,        \* history: alarm id -> id returned by the last completed logAlarmSentOut, None once that record is resolved
    lastCall,          \* history: the most recently completed logAlarmSentOut call: did an earlier call for
                       \* the alarm return a still unresolved id, did this call return the same id, did it write
    q                  \* inputs and results of the time resolver / scheduler applied on their own

vars == <<now, alarms, challenges, registry, tray, activeAlarmId, activeAlarmPhrase,
          alarmStartTime, sentOutId, attempts, alertShown, handlers, resolvers,
          lastLogged, lastCall, q>>

----------------------------------------------------------------------------
(* Bounds of the model *)

MaxChallenges == 2     \* documents the alarms_sent_out collection may hold
MaxHandlers == 2       \* handleNotificationAction calls in flight at once
MaxResolvers == 1      \* handleSubmit / handleTimeout calls in flight at once
MaxLate == 1           \* timer ticks modelled after the deadline has passed
MaxMinutes == 20        \* minutes of wall-clock time the state machine covers
MaxObserved == 1       \* leading reminders of a burst at which the app may be running

----------------------------------------------------------------------------
(* Program constants *)

NOTIFICATION_REPEATS == 10
REPEAT_INTERVAL_TENTHS == 175      \* REPEAT_INTERVAL_SECONDS = 17.5, in tenths of a second
TIMEOUT_MINUTES == 15
TIMEOUT_MS == TIMEOUT_MINUTES * 60 * 1000
TICK_MS == 1000                    \* setInterval(..., 1000)

SECOND_MS == 1000
MINUTE_MS == 60 * SECOND_MS
HOUR_MS == 60 * MINUTE_MS
DAY_MS == 24 * HOUR_MS

None == -1                         \* null / undefined, for instants and challenge ids
NoAlarmId == "null"                \* null, for alarm ids
NoPhrase == <<>>                   \* null (or the empty string: both are falsy), for phrases

USER == "u1"                       \* user.uid of the signed-in user
AlarmIds == {"a1", "a2"}

Max(a, b) == IF a >= b THEN a ELSE b

----------------------------------------------------------------------------
(* Time resolver (notificationService.getNextAlarmDate) *)

\* Date.getDay(): 0 = Sunday ... 6 = Saturday
getDay(t) == (t \div DAY_MS) % 7

\* Date.setHours(hours, minutes, 0, 0) on a date of the same day as t
setHours(t, hours, minutes) == (t - (t % DAY_MS)) + hours * HOUR_MS + minutes * MINUTE_MS

\* the loop "for (let daysAhead = 0; daysAhead < 7; daysAhead++)"; falling
\* off the end of the function yields undefined
RECURSIVE scanDays(_, _, _, _)
scanDays(alarmDate, t, selectedDays, daysAhead) ==
    IF daysAhead >= 7 THEN None
    ELSE LET checkDate == alarmDate + daysAhead * DAY_MS
         IN IF getDay(checkDate) \in selectedDays
               /\ ~(daysAhead = 0 /\ checkDate <= t)
            THEN checkDate
            ELSE scanDays(alarmDate, t, selectedDays, daysAhead + 1)

getNextAlarmDate(alarm, t) ==
    scanDays(setHours(t, alarm.hours, alarm.minutes), t, alarm.selectedDays, 0)

----------------------------------------------------------------------------
(* Notification scheduler (notificationService) *)

\* `alarm-${alarmId}-${index}`
getNotificationId(alarmId, index) == <<"alarm", alarmId, index>>

NotificationIds == {getNotificationId(a, i) : a \in AlarmIds, i \in 0..(NOTIFICATION_REPEATS - 1)}

\* notificationDate.setSeconds(getSeconds() + i * 17.5): setSeconds truncates
\* its argument to an integer number of seconds (MakeTime / ToIntegerOrInfinity)
notificationDate(baseDate, i) ==
    baseDate + ((i * REPEAT_INTERVAL_TENTHS) \div 10) * SECOND_MS

\* the loop of scheduleAlarmNotifications, entered at instant t; every
\* iteration reads the clock again ("new Date()") and lag is the time one
\* iteration takes
RECURSIVE scheduleLoop(_, _, _, _, _, _)
scheduleLoop(reg, alarmId, baseDate, t, lag, i) ==
    IF i >= NOTIFICATION_REPEATS THEN reg
    ELSE IF notificationDate(baseDate, i) <= t + i * lag
         THEN scheduleLoop(reg, alarmId, baseDate, t, lag, i + 1)
         ELSE scheduleLoop(
                [reg EXCEPT ![getNotificationId(alarmId, i)] = notificationDate(baseDate, i)],
                alarmId, baseDate, t, lag, i + 1)

\* scheduling without the isEnabled guard
scheduleAlarmNotificationsAlways(reg, alarmId, alarm, t, lag) ==
    LET baseDate == getNextAlarmDate(alarm, t)
    IN IF baseDate = None THEN reg
       ELSE scheduleLoop(reg, alarmId, baseDate, t, lag, 0)

\* scheduleAlarmNotifications(alarm) called at instant t: the registry afterwards
scheduleAlarmNotifications(reg, alarmId, alarm, t, lag) ==
    IF ~alarm.isEnabled THEN reg
    ELSE LET baseDate == getNextAlarmDate(alarm, t)
         IN IF baseDate = None THEN reg
            ELSE scheduleLoop(reg, alarmId, baseDate, t, lag, 0)

\* the identifiers scheduleAlarmNotifications returns (scheduledIds)
scheduledIds(alarmId, alarm, t, lag) ==
    IF ~alarm.isEnabled THEN {}
    ELSE LET baseDate == getNextAlarmDate(alarm, t)
         IN IF baseDate = None THEN {}
            ELSE {getNotificationId(alarmId, i) : i \in
                    {j \in 0..(NOTIFICATION_REPEATS - 1) : notificationDate(baseDate, j) > t + j * lag}}

\* the cancellation loop stopping one identifier short
cancelAlarmNotificationsButLast(reg, alarmId) ==
    [id \in DOMAIN reg |->
        IF id \in {getNotificationId(alarmId, i) : i \in 0..(NOTIFICATION_REPEATS - 2)}
        THEN None ELSE reg[id]]

\* cancelAlarmNotifications(alarmId): the registry afterwards
cancelAlarmNotifications(reg, alarmId) ==
    [id \in DOMAIN reg |->
        IF id \in {getNotificationId(alarmId, i) : i \in 0..(NOTIFICATION_REPEATS - 1)}
        THEN None ELSE reg[id]]

EmptyRegistry == [id \in NotificationIds |-> None]

\* rescheduleAllAlarms(alarms): cancelAllScheduledNotificationsAsync, then
\* scheduleAlarmNotifications for every enabled alarm of the list
RECURSIVE scheduleEach(_, _, _, _)
scheduleEach(reg, ids, docs, t) ==
    IF ids = {} THEN reg
    ELSE LET a == CHOOSE x \in ids : TRUE
         IN scheduleEach(scheduleAlarmNotifications(reg, a, docs[a], t, 0), ids \ {a}, docs, t)

\* rescheduling without the filter on isEnabled and without the scheduler's guard
RECURSIVE scheduleEachAlways(_, _, _, _)
scheduleEachAlways(reg, ids, docs, t) ==
    IF ids = {} THEN reg
    ELSE LET a == CHOOSE x \in ids : TRUE
         IN scheduleEachAlways(scheduleAlarmNotificationsAlways(reg, a, docs[a], t, 0), ids \ {a}, docs, t)
rescheduleAllAlarmsUnfiltered(docs, t) ==
    scheduleEachAlways(EmptyRegistry, DOMAIN docs, docs, t)

rescheduleAllAlarms(docs, t) ==
    scheduleEach(EmptyRegistry, {a \in DOMAIN docs : docs[a].isEnabled}, docs, t)

----------------------------------------------------------------------------
(* Phrase matching (AlarmVerificationModal.validatePhrase).  A string is a  *)
(* sequence of one-character strings.                                       *)

UpperLetters == <<"A","B","C","D","E","F","G","H","I","J","K","L","M",
                  "N","O","P","Q","R","S","T","U","V","W","X","Y","Z">>
LowerLetters == <<"a","b","c","d","e","f","g","h","i","j","k","l","m",
                  "n","o","p","q","r","s","t","u","v","w","x","y","z">>
Digits == {"0","1","2","3","4","5","6","7","8","9"}

IsSpace(c) == c \in {" ", "\t", "\n"}                       \* \s
IsWordChar(c) ==                                            \* \w
    \/ \E i \in 1..26 : c = UpperLetters[i] \/ c = LowerLetters[i]
    \/ c \in Digits
    \/ c = "_"

\* String.prototype.toLowerCase
toLowerCase(str) ==
    [k \in 1..Len(str) |->
        IF \E i \in 1..26 : str[k] = UpperLetters[i]
        THEN LowerLetters[CHOOSE i \in 1..26 : str[k] = UpperLetters[i]]
        ELSE str[k]]

\* String.prototype.trim
RECURSIVE trimStart(_)
trimStart(str) ==
    IF str # <<>> /\ IsSpace(Head(str)) THEN trimStart(Tail(str)) ELSE str
RECURSIVE trimEnd(_)
trimEnd(str) ==
    IF str # <<>> /\ IsSpace(str[Len(str)]) THEN trimEnd(SubSeq(str, 1, Len(str) - 1)) ELSE str
trim(str) == trimEnd(trimStart(str))

\* .replace(/[^\w\s]/g, "")
KeepWordOrSpace(c) == IsWordChar(c) \/ IsSpace(c)
stripPunctuation(str) == SelectSeq(str, KeepWordOrSpace)

\* const normalized = (str) => str.toLowerCase().trim().replace(/[^\w\s]/g, "")
normalized(str) == stripPunctuation(trim(toLowerCase(str)))

\* String.prototype.split(/\s+/): the pieces between maximal runs of white
\* space; a leading or trailing run yields an empty piece
RECURSIVE splitLoop(_, _, _, _)
splitLoop(str, cur, out, inRun) ==
    IF str = <<>> THEN Append(out, cur)
    ELSE IF IsSpace(Head(str))
         THEN IF inRun THEN splitLoop(Tail(str), cur, out, TRUE)
              ELSE splitLoop(Tail(str), <<>>, Append(out, cur), TRUE)
         ELSE splitLoop(Tail(str), Append(cur, Head(str)), out, FALSE)
split(str) == splitLoop(str, <<>>, <<>>, FALSE)

includes(words, word) == \E k \in 1..Len(words) : words[k] = word

\* the fuzzy match accepting only more than 80%
validatePhraseAbove(phrase, input) ==
    IF phrase = NoPhrase THEN FALSE
    ELSE LET target == normalized(phrase)
             userInput == normalized(input)
             targetWords == split(target)
             inputWords == split(userInput)
             matchedWords == Cardinality({k \in 1..Len(targetWords) : includes(inputWords, targetWords[k])})
         IN \/ target = userInput
            \/ matchedWords * 5 > 4 * Len(targetWords)

\* validatePhrase(input) against the active phrase; similarity >= 0.8 is
\* matchedWords / targetWords.length >= 4/5
validatePhrase(phrase, input) ==
    IF phrase = NoPhrase THEN FALSE
    ELSE LET target == normalized(phrase)
             userInput == normalized(input)
             targetWords == split(target)
             inputWords == split(userInput)
             matchedWords == Cardinality({k \in 1..Len(targetWords) : includes(inputWords, targetWords[k])})
         IN \/ target = userInput
            \/ matchedWords * 5 >= 4 * Len(targetWords)

\* constants.MOTIVATIONAL_PHRASES (the entries the model draws from)
MOTIVATIONAL_PHRASES == { <<"I", " ", "a", "m", " ", "u", "n", "s", "t", "o", "p", "p", "a", "b", "l", "e">> }

\* what the user may say or type
Inputs == { <<"I", " ", "a", "m", " ", "u", "n", "s", "t", "o", "p", "p", "a", "b", "l", "e">>,
            <<"i", " ", "a", "m", " ", " ", "U", "N", "S", "T", "O", "P", "P", "A", "B", "L", "E", "!">>,
            <<"u", "n", "s", "t", "o", "p", "p", "a", "b", "l", "e">>,
            <<>> }

----------------------------------------------------------------------------
(* Challenge tracker (alarmService) *)

\* the query with its challengeStatus filter left out
PendingMatchesAnyStatus(docs, userId, alarmId) ==
    {id \in DOMAIN docs : /\ docs[id].userId = userId
                          /\ docs[id].alarmId = alarmId}

\* the documents the query of getExistingPendingChallenge matches:
\* userId == userId, alarmId == alarmId, challengeStatus == "pending"
PendingMatches(docs, userId, alarmId) ==
    {id \in DOMAIN docs : /\ docs[id].userId = userId
                          /\ docs[id].alarmId = alarmId
                          /\ docs[id].challengeStatus = "pending"}

\* the document addDoc creates in logAlarmSentOut
NewChallenge(userId, alarmId, t) ==
    [userId |-> userId, alarmId |-> alarmId, sentAt |-> t,
     challengeStatus |-> "pending", completedAt |-> None, attemptsMade |-> None]

\* the update writing challengeStatus alone
updateStatusOnly(docs, id, status, attemptsMade, t) ==
    [docs EXCEPT ![id] = [@ EXCEPT !.challengeStatus = status]]

\* updateDoc of markAlarmChallengeSuccess / markAlarmChallengeFailed
updateStatus(docs, id, status, attemptsMade, t) ==
    [docs EXCEPT ![id] = [@ EXCEPT !.challengeStatus = status,
                                   !.completedAt = t,
                                   !.attemptsMade = attemptsMade]]

\* the isEnabled field read as true whatever the document holds
getAlarmByIdEnabled(docs, alarmId) ==
    IF alarmId \in DOMAIN docs THEN <<[docs[alarmId] EXCEPT !.isEnabled = TRUE]>> ELSE <<>>

\* getAlarmById: the document, or null (the empty sequence)
getAlarmById(docs, alarmId) ==
    IF alarmId \in DOMAIN docs THEN <<docs[alarmId]>> ELSE <<>>

----------------------------------------------------------------------------
(* Verification modal (AlarmVerificationModal) *)

\* const isVisible = !!activeAlarmId && !!activeAlarmPhrase
isVisible == activeAlarmId # NoAlarmId /\ activeAlarmPhrase # NoPhrase

\* the countdown effect runs its interval while the modal is visible
intervalActive == isVisible /\ alarmStartTime # None

\* the countdown running out one tick early
remainingOneTickShort(t, startTime) == Max(0, TIMEOUT_MS - TICK_MS - (t - startTime))

\* const remaining = Math.max(0, TIMEOUT_MS - elapsed)
remaining(t, startTime) == Max(0, TIMEOUT_MS - (t - startTime))

\* the condition of handleSubmit's branch: the code reads "if (true)"
submitAccepted(isValid) == TRUE

----------------------------------------------------------------------------
(* State machine *)

IdleHandler == [pc |-> "idle", alarmId |-> NoAlarmId]
IdleResolver == [pc |-> "idle", kind |-> "none", sentOutId |-> None, alarmId |-> NoAlarmId,
                 attemptsMade |-> 0, isValid |-> FALSE, origin |-> "none", expired |-> FALSE,
                 alarm |-> <<>>]

T0 == 1 * DAY_MS + 7 * HOUR_MS + 59 * MINUTE_MS       \* a Monday, 07:59:00.000
MaxNow == T0 + MaxMinutes * MINUTE_MS

AlarmDoc(h, m, days, enabled) ==
    [userId |-> USER, hours |-> h, minutes |-> m, selectedDays |-> days, isEnabled |-> enabled]

\* the alarm collections the model starts from
InitialAlarms ==
    { ("a1" :> AlarmDoc(8, 0, {1}, TRUE)) @@ ("a2" :> AlarmDoc(8, 0, {1, 3}, TRUE)) }
    \cup { ("a1" :> AlarmDoc(8, 0, d1, TRUE)) : d1 \in {{1}, {1, 2}} }

NoCall == [sequential |-> FALSE, same |-> FALSE, wrote |-> FALSE]
NoQuery == [kind |-> "none"]

Init ==
    /\ now = T0
    /\ alarms \in InitialAlarms
    /\ challenges = <<>>
    /\ registry = rescheduleAllAlarms(alarms, T0)      \* initializeAlarms at app start
    /\ tray = {}
    /\ activeAlarmId = NoAlarmId
    /\ activeAlarmPhrase = NoPhrase
    /\ alarmStartTime = None
    /\ sentOutId = None
    /\ attempts = 0
    /\ alertShown = FALSE
    /\ handlers = [h \in 1..MaxHandlers |-> IdleHandler]
    /\ resolvers = [r \in 1..MaxResolvers |-> IdleResolver]
    /\ lastLogged = [a \in AlarmIds |-> None]
    /\ lastCall = NoCall
    /\ q = NoQuery

storeVars == <<alarms, challenges>>
uiVars == <<activeAlarmId, activeAlarmPhrase, alarmStartTime, sentOutId, attempts>>
histVars == <<lastLogged, lastCall>>

FreeHandlers == {h \in 1..MaxHandlers : handlers[h].pc = "idle"}
FreeResolvers == {r \in 1..MaxResolvers : resolvers[r].pc = "idle"}
Lowest(S) == CHOOSE x \in S : \A y \in S : x <= y

Scheduled == {id \in NotificationIds : registry[id] # None}

\* the reminders of a burst at whose fire instant the model looks at the
\* app: the leading ones and the last one
ObservedIndices == (0..(MaxObserved - 1)) \cup {NOTIFICATION_REPEATS - 1}

\* the interval fires every TICK_MS: the clock cannot move to t past a tick
\* at which the remaining time is 0
CanAdvanceTo(t) ==
    /\ t >= now
    /\ t <= MaxNow
    /\ intervalActive => (t - now <= TICK_MS \/ (t - TICK_MS) - alarmStartTime < TIMEOUT_MS)

\* the clock reaches t: every reminder due by then has fired and left the
\* registry; its notification is in the tray
AdvanceTo(t) ==
    /\ now' = t
    /\ registry' = [id \in NotificationIds |->
                      IF registry[id] # None /\ registry[id] <= t THEN None ELSE registry[id]]
    /\ tray' = tray \cup {id[2] : id \in {x \in Scheduled : registry[x] <= t}}

\* handleNotificationAction(alarmId) is called: logAlarmSentOut issues its query
StartHandler(alarmId, serial) ==
    /\ FreeHandlers # {}
    /\ serial => FreeHandlers = 1..MaxHandlers
    /\ handlers' = [handlers EXCEPT ![Lowest(FreeHandlers)] = [pc |-> "query", alarmId |-> alarmId]]

\* a scheduled reminder fires while the app is in the foreground:
\* addNotificationReceivedListener -> handleNotificationAction
DeliverForeground(id, serial) ==
    /\ id \in Scheduled
    /\ id[3] \in ObservedIndices
    /\ CanAdvanceTo(registry[id])
    /\ AdvanceTo(registry[id])
    /\ StartHandler(id[2], serial)
    /\ UNCHANGED <<storeVars, uiVars, alertShown, resolvers, histVars, q>>

\* a scheduled reminder fires while the app is not in the foreground: the
\* system shows it and no listener runs
DeliverBackground(id) ==
    /\ id \in Scheduled
    /\ id[3] \in ObservedIndices
    /\ CanAdvanceTo(registry[id])
    /\ AdvanceTo(registry[id])
    /\ UNCHANGED <<storeVars, uiVars, alertShown, handlers, resolvers, histVars, q>>

\* the user taps a delivered notification: addNotificationResponseReceivedListener
\* (or getLastNotificationResponseAsync at launch) -> handleNotificationAction
TapNotification(serial) ==
    \E a \in tray :
        /\ StartHandler(a, serial)
        /\ UNCHANGED <<now, storeVars, registry, tray, uiVars, alertShown, resolvers, histVars, q>>

\* setActiveAlarm called without looking at activeAlarmId first
OpenModalAlways(alarmId, id) ==
    \E phrase \in MOTIVATIONAL_PHRASES :
        /\ activeAlarmId' = alarmId
        /\ activeAlarmPhrase' = phrase
        /\ alarmStartTime' = now
        /\ sentOutId' = id
        /\ attempts' = 0

\* the tail of handleNotificationAction once logAlarmSentOut has returned id:
\* setActiveAlarm(alarmId, phrase, sentOutId) unless a challenge is active;
\* the modal's reset effect runs as it becomes visible
OpenModal(alarmId, id) ==
    IF activeAlarmId = NoAlarmId
    THEN \E phrase \in MOTIVATIONAL_PHRASES :
            /\ activeAlarmId' = alarmId
            /\ activeAlarmPhrase' = phrase
            /\ alarmStartTime' = now                  \* startTime || new Date()
            /\ sentOutId' = id
            /\ attempts' = 0
    ELSE UNCHANGED uiVars

\* logAlarmSentOut returns id to its caller
LogReturns(alarmId, id, wrote) ==
    /\ lastCall' = [sequential |-> lastLogged[alarmId] # None,
                    same |-> id = lastLogged[alarmId],
                    wrote |-> wrote]
    /\ lastLogged' = [lastLogged EXCEPT ![alarmId] = id]

\* the query of getExistingPendingChallenge returns: an existing pending
\* challenge is reused (snapshot.docs[0]), otherwise addDoc is issued
QueryReturns(h) ==
    /\ handlers[h].pc = "query"
    /\ LET a == handlers[h].alarmId
           matches == PendingMatches(challenges, USER, a)
       IN IF matches # {}
          THEN \E id \in matches :
                  /\ handlers' = [handlers EXCEPT ![h] = IdleHandler]
                  /\ OpenModal(a, id)
                  /\ LogReturns(a, id, FALSE)
          ELSE /\ handlers' = [handlers EXCEPT ![h].pc = "insert"]
               /\ UNCHANGED <<uiVars, histVars>>
    /\ UNCHANGED <<now, storeVars, registry, tray, alertShown, resolvers, q>>

\* addDoc of logAlarmSentOut completes: a new pending challenge exists
InsertReturns(h) ==
    /\ handlers[h].pc = "insert"
    /\ Len(challenges) < MaxChallenges
    /\ LET a == handlers[h].alarmId
           id == Len(challenges) + 1
       IN /\ challenges' = Append(challenges, NewChallenge(USER, a, now))
          /\ handlers' = [handlers EXCEPT ![h] = IdleHandler]
          /\ OpenModal(a, id)
          /\ LogReturns(a, id, TRUE)
    /\ UNCHANGED <<now, alarms, registry, tray, alertShown, resolvers, q>>

\* handleSubmit up to its first await
Submit(input) ==
    /\ isVisible
    /\ ~alertShown
    /\ FreeResolvers # {}
    /\ LET isValid == validatePhrase(activeAlarmPhrase, input)
       IN IF submitAccepted(isValid)
          THEN /\ IF sentOutId # None /\ activeAlarmId # NoAlarmId
                  THEN /\ resolvers' = [resolvers EXCEPT ![Lowest(FreeResolvers)] =
                              [pc |-> "write", kind |-> "success", sentOutId |-> sentOutId,
                               alarmId |-> activeAlarmId, attemptsMade |-> attempts + 1,
                               isValid |-> isValid, origin |-> "submit",
                               expired |-> now - alarmStartTime >= TIMEOUT_MS, alarm |-> <<>>]]
                       /\ UNCHANGED alertShown
                  ELSE /\ alertShown' = TRUE
                       /\ UNCHANGED resolvers
               /\ UNCHANGED attempts
          ELSE /\ attempts' = attempts + 1
               /\ UNCHANGED <<resolvers, alertShown>>
    /\ UNCHANGED <<now, storeVars, registry, tray, activeAlarmId, activeAlarmPhrase,
                   alarmStartTime, sentOutId, handlers, histVars, q>>

\* the instants at which a tick of the interval is modelled: the last tick
\* before the deadline, the tick at the deadline, and every tick after it
\* (after the app start, for a countdown whose origin precedes it)
TickInstants ==
    {t \in {alarmStartTime + TIMEOUT_MS - TICK_MS, alarmStartTime + TIMEOUT_MS, now + TICK_MS} :
        /\ t > now
        /\ t = now + TICK_MS => now >= alarmStartTime + TIMEOUT_MS - TICK_MS
        /\ t <= Max(alarmStartTime + TIMEOUT_MS, T0) + MaxLate * TICK_MS}

\* a tick of the countdown interval; at remaining = 0 it calls handleTimeout
Tick(t) ==
    /\ intervalActive
    /\ t \in TickInstants
    /\ CanAdvanceTo(t)
    /\ AdvanceTo(t)
    /\ IF remaining(t, alarmStartTime) = 0 /\ sentOutId # None /\ activeAlarmId # NoAlarmId
       THEN /\ FreeResolvers # {}
            /\ resolvers' = [resolvers EXCEPT ![Lowest(FreeResolvers)] =
                   [pc |-> "write", kind |-> "failed", sentOutId |-> sentOutId,
                    alarmId |-> activeAlarmId, attemptsMade |-> attempts,
                    isValid |-> FALSE, origin |-> "tick",
                    expired |-> t - alarmStartTime >= TIMEOUT_MS, alarm |-> <<>>]]
       ELSE UNCHANGED resolvers
    /\ UNCHANGED <<storeVars, uiVars, alertShown, handlers, histVars, q>>

\* markAlarmChallengeSuccess / markAlarmChallengeFailed: updateDoc is applied
ResolverWrite(r) ==
    /\ resolvers[r].pc = "write"
    /\ challenges' = updateStatus(challenges, resolvers[r].sentOutId, resolvers[r].kind,
                                  resolvers[r].attemptsMade, now)
    /\ resolvers' = [resolvers EXCEPT ![r].pc = "read"]
    /\ lastLogged' = [a \in AlarmIds |->
                        IF lastLogged[a] = resolvers[r].sentOutId THEN None ELSE lastLogged[a]]
    /\ UNCHANGED <<now, alarms, registry, tray, uiVars, alertShown, handlers, lastCall, q>>

\* the caller's continuation once markAlarmChallenge... has returned:
\* handleSubmit goes on to cancelAlarmNotifications, handleTimeout shows its alert
AfterMark(r) ==
    IF resolvers[r].kind = "success"
    THEN /\ resolvers' = [resolvers EXCEPT ![r].pc = "cancel"]
         /\ UNCHANGED alertShown
    ELSE /\ resolvers' = [resolvers EXCEPT ![r] = IdleResolver]
         /\ alertShown' = TRUE

\* getAlarmById returns; "if (alarm && alarm.isEnabled)"
ResolverRead(r) ==
    /\ resolvers[r].pc = "read"
    /\ LET alarm == getAlarmById(alarms, resolvers[r].alarmId)
       IN IF alarm # <<>> /\ alarm[1].isEnabled
          THEN /\ resolvers' = [resolvers EXCEPT ![r].pc = "sched", ![r].alarm = alarm]
               /\ UNCHANGED alertShown
          ELSE AfterMark(r)
    /\ UNCHANGED <<now, storeVars, registry, tray, uiVars, handlers, histVars, q>>

\* scheduleAlarmNotifications(alarm) for the next occurrence
ResolverSchedule(r) ==
    /\ resolvers[r].pc = "sched"
    /\ registry' = scheduleAlarmNotifications(registry, resolvers[r].alarmId, resolvers[r].alarm[1], now, 0)
    /\ AfterMark(r)
    /\ UNCHANGED <<now, storeVars, tray, uiVars, handlers, histVars, q>>

\* handleSubmit: cancelAlarmNotifications(activeAlarmId), then the success alert
ResolverCancel(r) ==
    /\ resolvers[r].pc = "cancel"
    /\ registry' = cancelAlarmNotifications(registry, resolvers[r].alarmId)
    /\ resolvers' = [resolvers EXCEPT ![r] = IdleResolver]
    /\ alertShown' = TRUE
    /\ UNCHANGED <<now, storeVars, tray, uiVars, handlers, histVars, q>>

\* clearActiveAlarm leaving sentOutId as it was
PressOKKeepsSentOutId ==
    /\ alertShown
    /\ alertShown' = FALSE
    /\ activeAlarmId' = NoAlarmId
    /\ activeAlarmPhrase' = NoPhrase
    /\ alarmStartTime' = None
    /\ UNCHANGED <<now, storeVars, registry, tray, sentOutId, attempts, handlers, resolvers, histVars, q>>

\* the user presses OK on the alert: clearActiveAlarm
PressOK ==
    /\ alertShown
    /\ alertShown' = FALSE
    /\ activeAlarmId' = NoAlarmId
    /\ activeAlarmPhrase' = NoPhrase
    /\ alarmStartTime' = None
    /\ sentOutId' = None
    /\ UNCHANGED <<now, storeVars, registry, tray, attempts, handlers, resolvers, histVars, q>>

Step(serial) ==
    \/ \E id \in NotificationIds : DeliverForeground(id, serial)
    \/ \E id \in NotificationIds : DeliverBackground(id)
    \/ TapNotification(serial)
    \/ \E h \in 1..MaxHandlers : QueryReturns(h)
    \/ \E h \in 1..MaxHandlers : InsertReturns(h)
    \/ \E input \in Inputs : Submit(input)
    \/ \E t \in TickInstants : Tick(t)
    \/ \E r \in 1..MaxResolvers : ResolverWrite(r)
    \/ \E r \in 1..MaxResolvers : ResolverRead(r)
    \/ \E r \in 1..MaxResolvers : ResolverSchedule(r)
    \/ \E r \in 1..MaxResolvers : ResolverCancel(r)
    \/ PressOK

Next == Step(FALSE)

Spec == Init /\ [][Next]_vars

\* notification handlers run one at a time: no two logAlarmSentOut calls overlap
NextSerial == Step(TRUE)

SpecSerial == Init /\ [][NextSerial]_vars

----------------------------------------------------------------------------
(* The time resolver and the scheduler applied on their own to one alarm *)

SampleHours == {0, 8, 23}
SampleMinutes == {0, 59}
SampleTimesOfDay == {0, 7 * HOUR_MS + 59 * MINUTE_MS + 59 * SECOND_MS + 999, 8 * HOUR_MS,
                     8 * HOUR_MS + 1, 8 * HOUR_MS + 5 * MINUTE_MS, DAY_MS - 1}
SampleInstants == {d * DAY_MS + tod : d \in 0..6, tod \in SampleTimesOfDay}
SampleLags == {0, 20 * SECOND_MS}

InitScheduler ==
    /\ now \in SampleInstants
    /\ alarms \in { ("a1" :> AlarmDoc(h, m, days, enabled)) :
                      h \in SampleHours, m \in SampleMinutes, days \in SUBSET (0..6),
                      enabled \in BOOLEAN }
    /\ challenges = <<>>
    /\ registry \in {EmptyRegistry,
                     [EmptyRegistry EXCEPT ![getNotificationId("a1", 0)] = 8 * DAY_MS,
                                           ![getNotificationId("a2", 3)] = 9 * DAY_MS]}
    /\ tray = {}
    /\ activeAlarmId = NoAlarmId
    /\ activeAlarmPhrase = NoPhrase
    /\ alarmStartTime = None
    /\ sentOutId = None
    /\ attempts = 0
    /\ alertShown = FALSE
    /\ handlers = [h \in 1..MaxHandlers |-> IdleHandler]
    /\ resolvers = [r \in 1..MaxResolvers |-> IdleResolver]
    /\ lastLogged = [a \in AlarmIds |-> None]
    /\ lastCall = NoCall
    /\ q = NoQuery

\* scheduleAlarmNotifications(alarm) is called once, at instant now
CallSchedule(lag) ==
    /\ q = NoQuery
    /\ q' = [kind |-> "scheduled",
             next |-> getNextAlarmDate(alarms["a1"], now),
             ids |-> scheduledIds("a1", alarms["a1"], now, lag),
             before |-> registry,
             lag |-> lag]
    /\ registry' = scheduleAlarmNotifications(registry, "a1", alarms["a1"], now, lag)
    /\ UNCHANGED <<now, storeVars, tray, uiVars, alertShown, handlers, resolvers, histVars>>

NextScheduler == \E lag \in SampleLags : CallSchedule(lag)

SpecScheduler == InitScheduler /\ [][NextScheduler]_vars

----------------------------------------------------------------------------
(* Properties *)

\* the pending challenges of the signed-in user for an alarm
PendingOf(a) ==
    {id \in DOMAIN challenges : /\ challenges[id].userId = USER
                                /\ challenges[id].alarmId = a
                                /\ challenges[id].challengeStatus = "pending"}

Terminal(status) == status \in {"success", "failed"}

\* the reminders the registry holds for an alarm
RemindersOf(reg, a) ==
    {i \in 0..(NOTIFICATION_REPEATS - 1) : reg[getNotificationId(a, i)] # None}

Schedulable(a) ==
    a \in DOMAIN alarms /\ alarms[a].isEnabled /\ alarms[a].selectedDays # {}

\* C1: in every reachable state there is at most one pending challenge per
\* (user, alarm), whatever the interleaving of the notification handlers
C1_AtMostOnePending ==
    \A a \in AlarmIds : Cardinality(PendingOf(a)) <= 1

\* C2: a logAlarmSentOut call that starts after an earlier call for the same
\* alarm has returned, with no resolution in between, returns the same id and
\* writes nothing, and that id is the one pending challenge of the alarm
C2_SequentialLogIsIdempotent ==
    /\ lastCall.sequential => (lastCall.same /\ ~lastCall.wrote)
    /\ \A a \in AlarmIds : lastLogged[a] # None => PendingOf(a) = {lastLogged[a]}

C2_SecondCallReturned ==
    /\ lastCall.sequential
    /\ \E a \in AlarmIds : lastLogged[a] # None /\ Cardinality(PendingOf(a)) = 1

\* C3: once a challenge is success or failed, no step changes its status
C3_TerminalStatusIsFinal ==
    [][\A id \in DOMAIN challenges :
          Terminal(challenges[id].challengeStatus)
              => challenges'[id].challengeStatus = challenges[id].challengeStatus]_vars

\* C4: markAlarmChallengeSuccess is called only by a submission whose input
\* passed validatePhrase against the active phrase
C4_SuccessOnlyWhenValidated ==
    \A r \in 1..MaxResolvers : resolvers[r].kind = "success" => resolvers[r].isValid

\* C5: markAlarmChallengeFailed is called only from a timer tick at which at
\* least TIMEOUT_MS has elapsed since alarmStartTime, never from a submission,
\* and a status becomes failed only by the write of such a call
C5_FailedOnlyOnTimeout ==
    /\ [](\A r \in 1..MaxResolvers :
            resolvers[r].kind = "failed" => (resolvers[r].origin = "tick" /\ resolvers[r].expired))
    /\ [][\A id \in DOMAIN challenges :
            (challenges[id].challengeStatus # "failed" /\ challenges'[id].challengeStatus = "failed")
                => \E r \in 1..MaxResolvers :
                      /\ resolvers[r].pc = "write"
                      /\ resolvers[r].sentOutId = id
                      /\ resolvers[r].origin = "tick"
                      /\ resolvers[r].expired]_vars

C5_TimedOut ==
    \E id \in DOMAIN challenges : challenges[id].challengeStatus = "failed"

\* the earliest instant strictly after t whose weekday is selected and whose
\* time of day is hours:minutes:00.000
OccurrencesAfter(alarm, t) ==
    {c \in {setHours(t, alarm.hours, alarm.minutes) + d * DAY_MS : d \in 0..7} :
        c > t /\ getDay(c) \in alarm.selectedDays}
EarliestAfter(alarm, t) ==
    CHOOSE c \in OccurrencesAfter(alarm, t) : \A other \in OccurrencesAfter(alarm, t) : c <= other

\* C6: for non-empty selectedDays getNextAlarmDate returns an instant, strictly
\* after the call time and at most 7 days after it
C6_NextIsWithinAWeek ==
    (q # NoQuery /\ alarms["a1"].selectedDays # {})
        => (q.next # None /\ q.next > now /\ q.next <= now + 7 * DAY_MS)

\* C7: getNextAlarmDate returns the earliest instant strictly after now on a
\* selected weekday at hours:minutes:00.000 (the same weekday a week later
\* when today is the only selected day and today's instant has passed)
C7_NextIsEarliestOccurrence ==
    (q # NoQuery /\ alarms["a1"].selectedDays # {})
        => q.next = EarliestAfter(alarms["a1"], now)

\* C8: for empty selectedDays getNextAlarmDate yields none, and for empty
\* selectedDays or a disabled alarm scheduleAlarmNotifications returns an
\* empty list and leaves the registry as it was
C8_UnschedulableIsSilent ==
    (q # NoQuery /\ (alarms["a1"].selectedDays = {} \/ ~alarms["a1"].isEnabled))
        => /\ alarms["a1"].selectedDays = {} => q.next = None
           /\ q.ids = {}
           /\ registry = q.before

C8_UnschedulableCalled ==
    /\ q # NoQuery
    /\ alarms["a1"].isEnabled
    /\ alarms["a1"].selectedDays = {}
    /\ q.before # EmptyRegistry
    /\ q.next = None

\* C9: when the success flow of handleSubmit has completed for an alarm that
\* is enabled and has selected days, the registry holds reminders of the
\* alarm, all in the future; stated for the completions at which
\* getNextAlarmDate yields an instant, so that what is asked of the flow is
\* only that its cancellation spares the reminders it has just registered
C9_SuccessLeavesNextOccurrence ==
    [][\A r \in 1..MaxResolvers :
          (/\ resolvers[r].kind = "success"
           /\ resolvers[r].pc = "cancel"
           /\ resolvers'[r].pc = "idle"
           /\ Schedulable(resolvers[r].alarmId)
           /\ getNextAlarmDate(alarms[resolvers[r].alarmId], now) # None)
              => /\ RemindersOf(registry', resolvers[r].alarmId) # {}
                 /\ \A i \in RemindersOf(registry', resolvers[r].alarmId) :
                       registry'[getNotificationId(resolvers[r].alarmId, i)] > now']_vars

\* C10: when the timeout flow (markAlarmChallengeFailed) has completed for an
\* alarm that is enabled and has selected days, the registry holds reminders
\* of the alarm, all in the future
C10_TimeoutLeavesNextOccurrence ==
    [][\A r \in 1..MaxResolvers :
          (/\ resolvers[r].kind = "failed"
           /\ resolvers[r].pc \in {"read", "sched"}
           /\ resolvers'[r].pc = "idle"
           /\ Schedulable(resolvers[r].alarmId))
              => /\ RemindersOf(registry', resolvers[r].alarmId) # {}
                 /\ \A i \in RemindersOf(registry', resolvers[r].alarmId) :
                       registry'[getNotificationId(resolvers[r].alarmId, i)] > now']_vars

----------------------------------------------------------------------------
(* validatePhrase applied on its own to sampled phrases and inputs *)

MaxWords == 3          \* words of a generated input

\* entries of MOTIVATIONAL_PHRASES, and the phrase "I Am Unstoppable!"
PhraseUnstoppable == <<"I", " ", "a", "m", " ", "u", "n", "s", "t", "o", "p", "p", "a", "b", "l", "e">>
PhraseShouted == <<"I", " ", "A", "m", " ", "U", "n", "s", "t", "o", "p", "p", "a", "b", "l", "e", "!">>
PhraseFocused == <<"I", " ", "a", "m", " ", "f", "o", "c", "u", "s", "e", "d", " ", "a", "n", "d", " ", "d", "e", "t", "e", "r", "m", "i", "n", "e", "d">>
SamplePhrases == {PhraseUnstoppable, PhraseShouted, PhraseFocused}

SampleWords == { <<"I">>,
                 <<"A", "m">>,
                 <<"u", "n", "s", "t", "o", "p", "p", "a", "b", "l", "e">>,
                 <<"f", "o", "c", "u", "s", "e", "d">>,
                 <<"a", "n", "d">>,
                 <<"d", "e", "t", "e", "r", "m", "i", "n", "e", "d">> }

WordLists == UNION {[1..n -> SampleWords] : n \in 0..MaxWords}

\* the words of ws, each followed by sep except the last
RECURSIVE join(_, _)
join(ws, sep) ==
    IF ws = <<>> THEN <<>>
    ELSE IF Len(ws) = 1 THEN ws[1]
         ELSE ws[1] \o sep \o join(Tail(ws), sep)

InputTotally == <<"I", " ", "a", "m", " ", "t", "o", "t", "a", "l", "l", "y", " ", "u", "n", "s", "t", "o", "p", "p", "a", "b", "l", "e", " ", "t", "o", "d", "a", "y">>
InputAlone == <<"u", "n", "s", "t", "o", "p", "p", "a", "b", "l", "e">>
InputLower == <<"i", " ", "a", "m", " ", "u", "n", "s", "t", "o", "p", "p", "a", "b", "l", "e">>
InputFourOfFive == <<"d", "e", "t", "e", "r", "m", "i", "n", "e", "d", " ", "f", "o", "c", "u", "s", "e", "d", " ", "A", "m", " ", "I">>

\* what may be typed or transcribed: the words in any order, single spaced;
\* double spaced with an exclamation mark; with white space around and a
\* detached full stop
SampleInputs ==
    {join(ws, <<" ">>) : ws \in WordLists}
    \cup {join(ws, <<" ", " ">>) \o <<"!">> : ws \in WordLists}
    \cup {<<" ">> \o join(ws, <<"\t">>) \o <<" ", ".">> : ws \in WordLists}
    \cup {InputTotally, InputAlone, InputLower, InputFourOfFive}

InitPhrase ==
    /\ now = T0
    /\ alarms \in { ("a1" :> AlarmDoc(8, 0, {1}, TRUE)) }
    /\ challenges = <<NewChallenge(USER, "a1", T0)>>
    /\ registry = EmptyRegistry
    /\ tray = {}
    /\ activeAlarmId = "a1"
    /\ activeAlarmPhrase \in SamplePhrases
    /\ alarmStartTime = T0
    /\ sentOutId = 1
    /\ attempts = 0
    /\ alertShown = FALSE
    /\ handlers = [h \in 1..MaxHandlers |-> IdleHandler]
    /\ resolvers = [r \in 1..MaxResolvers |-> IdleResolver]
    /\ lastLogged = [a \in AlarmIds |-> None]
    /\ lastCall = NoCall
    /\ q = NoQuery

\* validatePhrase(input) is called once with the modal open
CallValidate(input) ==
    /\ q = NoQuery
    /\ isVisible
    /\ q' = [kind |-> "validated", input |-> input,
             result |-> validatePhrase(activeAlarmPhrase, input)]
    /\ UNCHANGED <<now, storeVars, registry, tray, uiVars, alertShown, handlers, resolvers, histVars>>

NextPhrase == q = NoQuery /\ \E input \in SampleInputs : CallValidate(input)

SpecPhrase == InitPhrase /\ [][NextPhrase]_vars

\* the maximal runs of characters other than white space, in order
RECURSIVE runsLoop(_, _, _)
runsLoop(str, cur, out) ==
    IF str = <<>> THEN (IF cur = <<>> THEN out ELSE Append(out, cur))
    ELSE IF IsSpace(Head(str))
         THEN runsLoop(Tail(str), <<>>, IF cur = <<>> THEN out ELSE Append(out, cur))
         ELSE runsLoop(Tail(str), Append(cur, Head(str)), out)
WordsOf(str) == runsLoop(str, <<>>, <<>>)
WordSetOf(str) == LET words == WordsOf(str) IN {words[k] : k \in 1..Len(words)}

Cleaned(str) == stripPunctuation(trim(toLowerCase(str)))

\* equal, or at least 80% of the target's words are in the input's word set
Accepts(target, input) ==
    LET targetWords == WordsOf(Cleaned(target))
        inputWords == WordSetOf(Cleaned(input))
    IN \/ Cleaned(target) = Cleaned(input)
       \/ 5 * Cardinality({k \in 1..Len(targetWords) : targetWords[k] \in inputWords})
             >= 4 * Len(targetWords)

\* C19: validatePhrase is true exactly when the cleaned strings are equal or at
\* least 80% of the target's words occur in the input's word set, whatever
\* their order; the three examples of the claim come out true, true, false
C19_ValidateIsEightyPercentOfWords ==
    (q # NoQuery) =>
        /\ q.result = Accepts(activeAlarmPhrase, q.input)
        /\ (activeAlarmPhrase = PhraseShouted /\ q.input = InputLower) => q.result
        /\ (activeAlarmPhrase = PhraseUnstoppable /\ q.input = InputTotally) => q.result
        /\ (activeAlarmPhrase = PhraseUnstoppable /\ q.input = InputAlone) => ~q.result

\* four of the five words of the phrase, in another order: exactly 80%
C19_FourOfFive ==
    /\ q # NoQuery
    /\ activeAlarmPhrase = PhraseFocused
    /\ Len(WordsOf(Cleaned(q.input))) = 4
    /\ WordsOf(Cleaned(q.input))[1] = <<"d", "e", "t", "e", "r", "m", "i", "n", "e", "d">>
    /\ Cleaned(q.input) # Cleaned(activeAlarmPhrase)
    /\ q.result

----------------------------------------------------------------------------
(* Session recovery: the app restarts at T0 with challenges in the store *)

OTHER_USER == "u2"

\* the alarm of the recovered challenges: 07:30 on Mondays and Tuesdays
RecoveryAlarms == ("a1" :> AlarmDoc(7, 30, {1, 2}, TRUE))

\* sentAt of the stored challenges: 20, 15 and 10 minutes before the restart
SampleSentAt == {T0 - 20 * MINUTE_MS, T0 - TIMEOUT_MS, T0 - 10 * MINUTE_MS}

StoredChallenge(userId, status, sentAt) ==
    [userId |-> userId, alarmId |-> "a1", sentAt |-> sentAt, challengeStatus |-> status,
     completedAt |-> IF status = "pending" THEN None ELSE sentAt + MINUTE_MS,
     attemptsMade |-> IF status = "pending" THEN None ELSE 1]

SampleChallenges ==
    {StoredChallenge(USER, "pending", t) : t \in SampleSentAt}
    \cup {StoredChallenge(USER, "success", T0 - 10 * MINUTE_MS),
          StoredChallenge(USER, "failed", T0 - 10 * MINUTE_MS),
          StoredChallenge(OTHER_USER, "pending", T0 - 10 * MINUTE_MS)}

\* the oldest pending challenge instead of the most recent one
getPendingAlarmChallengeOldest(docs, userId) ==
    LET pending == {id \in DOMAIN docs : docs[id].userId = userId /\ docs[id].challengeStatus = "pending"}
    IN {id \in pending : \A other \in pending : docs[id].sentAt <= docs[other].sentAt}

\* getPendingAlarmChallenge(userId): the ids docs[0] may be after the sort by
\* sentAt descending (the empty set when the snapshot is empty: null)
getPendingAlarmChallenge(docs, userId) ==
    LET pending == {id \in DOMAIN docs : docs[id].userId = userId /\ docs[id].challengeStatus = "pending"}
    IN {id \in pending : \A other \in pending : docs[id].sentAt >= docs[other].sentAt}

\* the start time given to setActiveAlarm is dropped
startTimeIgnored(startTime, t) == t

\* setActiveAlarm: alarmStartTime: startTime || new Date()
startTimeOrNow(startTime, t) == IF startTime # None THEN startTime ELSE t

InitRecovery ==
    /\ now = T0
    /\ alarms = RecoveryAlarms
    /\ challenges \in UNION {[1..n -> SampleChallenges] : n \in 0..MaxChallenges}
    /\ registry = rescheduleAllAlarms(alarms, T0)
    /\ tray = {}
    /\ activeAlarmId = NoAlarmId
    /\ activeAlarmPhrase = NoPhrase
    /\ alarmStartTime = None
    /\ sentOutId = None
    /\ attempts = 0
    /\ alertShown = FALSE
    /\ handlers = [h \in 1..MaxHandlers |-> IdleHandler]
    /\ resolvers = [r \in 1..MaxResolvers |-> IdleResolver]
    /\ lastLogged = [a \in AlarmIds |-> None]
    /\ lastCall = NoCall
    /\ q = NoQuery

\* checkPendingChallenge: getPendingAlarmChallenge(user.uid) returns
RecoveryQuery ==
    /\ q = NoQuery
    /\ LET found == getPendingAlarmChallenge(challenges, USER)
       IN IF found = {}
          THEN q' = [kind |-> "recovering", result |-> None, alarmId |-> NoAlarmId, sentAt |-> None]
          ELSE \E id \in found :
                  q' = [kind |-> "recovering", result |-> id,
                        alarmId |-> challenges[id].alarmId, sentAt |-> challenges[id].sentAt]
    /\ UNCHANGED <<now, storeVars, registry, tray, uiVars, alertShown, handlers, resolvers, histVars>>

\* recovery that logs the restored challenge once more
RecoverySetLogging ==
    /\ q.kind = "recovering"
    /\ q' = [q EXCEPT !.kind = "recovered"]
    /\ IF q.result # None
       THEN \E phrase \in MOTIVATIONAL_PHRASES :
               /\ activeAlarmId' = q.alarmId
               /\ activeAlarmPhrase' = phrase
               /\ alarmStartTime' = startTimeOrNow(q.sentAt, now)
               /\ sentOutId' = Len(challenges) + 1
               /\ attempts' = IF isVisible THEN attempts ELSE 0
               /\ challenges' = Append(challenges, NewChallenge(USER, q.alarmId, now))
       ELSE UNCHANGED <<uiVars, challenges>>
    /\ UNCHANGED <<now, alarms, registry, tray, alertShown, handlers, resolvers, histVars>>

\* checkPendingChallenge: setActiveAlarm(alarmId, phrase, id, sentAt) when a
\* challenge was found, whatever activeAlarmId holds; the modal's reset effect
\* runs when it becomes visible
RecoverySet ==
    /\ q.kind = "recovering"
    /\ q' = [q EXCEPT !.kind = "recovered"]
    /\ IF q.result # None
       THEN \E phrase \in MOTIVATIONAL_PHRASES :
               /\ activeAlarmId' = q.alarmId
               /\ activeAlarmPhrase' = phrase
               /\ alarmStartTime' = startTimeOrNow(q.sentAt, now)
               /\ sentOutId' = q.result
               /\ attempts' = IF isVisible THEN attempts ELSE 0
       ELSE UNCHANGED uiVars
    /\ UNCHANGED <<now, storeVars, registry, tray, alertShown, handlers, resolvers, histVars>>

NextRecovery ==
    \/ RecoveryQuery
    \/ RecoverySet
    \/ \E input \in Inputs : Submit(input)
    \/ \E t \in TickInstants : Tick(t)
    \/ \E r \in 1..MaxResolvers : ResolverWrite(r)
    \/ \E r \in 1..MaxResolvers : ResolverRead(r)
    \/ \E r \in 1..MaxResolvers : ResolverSchedule(r)
    \/ \E r \in 1..MaxResolvers : ResolverCancel(r)
    \/ PressOK

SpecRecovery == InitRecovery /\ [][NextRecovery]_vars

\* the pending challenges of the signed-in user
PendingOfUser ==
    {id \in DOMAIN challenges : /\ challenges[id].userId = USER
                                /\ challenges[id].challengeStatus = "pending"}

C14_RecoveryCountsFromSentAt ==
    /\ []((q.kind = "recovered" /\ q.result # None /\ sentOutId = q.result /\ intervalActive) =>
            /\ alarmStartTime = challenges[q.result].sentAt
            /\ remaining(now, alarmStartTime)
                  = Max(0, 15 * MINUTE_MS - (now - challenges[q.result].sentAt))
            /\ (now = T0 /\ challenges[q.result].sentAt = T0 - 10 * MINUTE_MS)
                  => remaining(now, alarmStartTime) = 5 * MINUTE_MS)
    /\ [][(/\ q.kind = "recovered" /\ q.result # None /\ sentOutId = q.result /\ intervalActive
           /\ challenges[q.result].sentAt <= T0 - 15 * MINUTE_MS
           /\ now = T0
           /\ now' > now)
              => \E r \in 1..MaxResolvers :
                    /\ resolvers'[r].pc = "write"
                    /\ resolvers'[r].kind = "failed"
                    /\ resolvers'[r].sentOutId = q.result]_vars

C14_ExpiredRecoveredFailed ==
    /\ q.kind = "recovered"
    /\ q.result # None
    /\ challenges[q.result].sentAt = T0 - 20 * MINUTE_MS
    /\ challenges[q.result].challengeStatus = "failed"
    /\ challenges[q.result].completedAt = T0 + TICK_MS

----------------------------------------------------------------------------
(* The notification service called sequentially: schedule, cancel and       *)
(* reschedule-all in any order, with time passing between the calls         *)

\* Monday 07:59, Monday 08:01 (inside the 08:00 burst), Tuesday 12:00
SampleNow == {T0, T0 + 2 * MINUTE_MS, 2 * DAY_MS + 12 * HOUR_MS}

SampleRegistryAlarms ==
    { ("a1" :> AlarmDoc(8, 0, d1, e1)) : d1 \in {{}, {1}, {1, 2}}, e1 \in BOOLEAN }
    \cup { ("a1" :> AlarmDoc(8, 0, d1, e1)) @@ ("a2" :> AlarmDoc(9, 30, {1, 3}, e2)) :
              d1 \in {{}, {1}, {1, 2}}, e1 \in BOOLEAN, e2 \in BOOLEAN }

\* reminders left registered by an earlier run of the app
StaleRegistry ==
    [EmptyRegistry EXCEPT ![getNotificationId("a1", 0)] = 8 * DAY_MS,
                          ![getNotificationId("a2", 3)] = 9 * DAY_MS]

InitRegistry ==
    /\ now \in SampleNow
    /\ alarms \in SampleRegistryAlarms
    /\ challenges = <<>>
    /\ registry \in {EmptyRegistry, StaleRegistry}
    /\ tray = {}
    /\ activeAlarmId = NoAlarmId
    /\ activeAlarmPhrase = NoPhrase
    /\ alarmStartTime = None
    /\ sentOutId = None
    /\ attempts = 0
    /\ alertShown = FALSE
    /\ handlers = [h \in 1..MaxHandlers |-> IdleHandler]
    /\ resolvers = [r \in 1..MaxResolvers |-> IdleResolver]
    /\ lastLogged = [a \in AlarmIds |-> None]
    /\ lastCall = NoCall
    /\ q = NoQuery

\* the identifiers under which the registry holds a reminder
Registered(reg) == {id \in DOMAIN reg : reg[id] # None}

registryFrame == <<now, storeVars, tray, uiVars, alertShown, handlers, resolvers, histVars>>

\* scheduleAlarmNotifications(alarm)
CallScheduleFor(a) ==
    /\ a \in DOMAIN alarms
    /\ registry' = scheduleAlarmNotifications(registry, a, alarms[a], now, 0)
    /\ q' = [kind |-> "scheduled", alarmId |-> a, before |-> Registered(registry)]
    /\ UNCHANGED registryFrame

\* cancelAlarmNotifications(alarmId)
CallCancel(a) ==
    /\ registry' = cancelAlarmNotifications(registry, a)
    /\ q' = [kind |-> "cancelled", alarmId |-> a, before |-> Registered(registry)]
    /\ UNCHANGED registryFrame

\* rescheduleAllAlarms(alarms) with the alarms of the user
CallRescheduleAll ==
    /\ registry' = rescheduleAllAlarms(alarms, now)
    /\ q' = [kind |-> "rescheduled", alarmId |-> NoAlarmId, before |-> Registered(registry)]
    /\ UNCHANGED registryFrame

\* time passes with the app closed: the reminders due by t are delivered
PassTime(t) ==
    /\ t > now
    /\ AdvanceTo(t)
    /\ q' = NoQuery
    /\ UNCHANGED <<storeVars, uiVars, alertShown, handlers, resolvers, histVars>>

NextRegistry ==
    \/ \E a \in AlarmIds : CallScheduleFor(a)
    \/ \E a \in AlarmIds : CallCancel(a)
    \/ CallRescheduleAll
    \/ \E t \in SampleNow : PassTime(t)

SpecRegistry == InitRegistry /\ [][NextRegistry]_vars

\* C15: after cancelAlarmNotifications(alarmId) the registry holds no reminder
\* of that alarm, whatever earlier scheduleAlarmNotifications calls registered
C15_CancelCoversEveryIdentifier ==
    (q.kind = "cancelled") =>
        {id \in Registered(registry) : id[2] = q.alarmId} = {}

C15_FullBurstCancelled ==
    /\ q.kind = "cancelled"
    /\ Cardinality({id \in q.before : id[2] = q.alarmId}) = NOTIFICATION_REPEATS

\* C16: after rescheduleAllAlarms(alarms) the registry holds exactly what
\* scheduleAlarmNotifications yields for each enabled alarm of the list,
\* starting from an empty registry: nothing registered before survives and a
\* disabled alarm has no reminder
C16_RescheduleAllIsExact ==
    (q.kind = "rescheduled") =>
        \A id \in NotificationIds :
            registry[id] =
                IF id[2] \in DOMAIN alarms /\ alarms[id[2]].isEnabled
                THEN scheduleAlarmNotifications(EmptyRegistry, id[2], alarms[id[2]], now, 0)[id]
                ELSE None

C16_StaleGoneEnabledScheduled ==
    /\ q.kind = "rescheduled"
    /\ \E id \in q.before : registry[id] = None
    /\ \E a \in DOMAIN alarms : ~alarms[a].isEnabled /\ \E id \in q.before : id[2] = a
    /\ \E a \in DOMAIN alarms :
          alarms[a].isEnabled /\ Cardinality({id \in Registered(registry) : id[2] = a}) = NOTIFICATION_REPEATS

----------------------------------------------------------------------------
(* Alarm management next to the challenge flow: the user deletes or toggles *)
(* an alarm on the alarm screens.  q holds the management call in flight.   *)

ManagedAlarms == ("a1" :> AlarmDoc(8, 0, {1, 2}, TRUE))

InitManage ==
    /\ now = T0
    /\ alarms = ManagedAlarms
    /\ challenges = <<>>
    /\ registry = rescheduleAllAlarms(alarms, T0)
    /\ tray = {}
    /\ activeAlarmId = NoAlarmId
    /\ activeAlarmPhrase = NoPhrase
    /\ alarmStartTime = None
    /\ sentOutId = None
    /\ attempts = 0
    /\ alertShown = FALSE
    /\ handlers = [h \in 1..MaxHandlers |-> IdleHandler]
    /\ resolvers = [r \in 1..MaxResolvers |-> IdleResolver]
    /\ lastLogged = [a \in AlarmIds |-> None]
    /\ lastCall = NoCall
    /\ q = NoQuery

\* the alarm screens can be used: the modal is not covering them and no
\* management call is in flight
screensFree == ~isVisible /\ ~alertShown /\ q.kind \notin {"deleting", "toggling"}

manageFrame == <<now, tray, uiVars, alertShown, handlers, resolvers, histVars>>

\* handleDeleteAlarm -> deleteAlarm(id): cancelAlarmNotifications(alarmId)
DeleteCancel(a) ==
    /\ screensFree
    /\ a \in DOMAIN alarms
    /\ registry' = cancelAlarmNotifications(registry, a)
    /\ q' = [kind |-> "deleting", alarmId |-> a, isEnabled |-> FALSE]
    /\ UNCHANGED <<storeVars, manageFrame>>

\* deleteAlarm: deleteDoc(doc(db, "alarms", alarmId)) and the pending
\* challenges of the alarm resolved with it
DeleteDocCascade ==
    /\ q.kind = "deleting"
    /\ alarms' = [x \in DOMAIN alarms \ {q.alarmId} |-> alarms[x]]
    /\ challenges' = [id \in DOMAIN challenges |->
                         IF challenges[id].alarmId = q.alarmId /\ challenges[id].challengeStatus = "pending"
                         THEN [challenges[id] EXCEPT !.challengeStatus = "failed"]
                         ELSE challenges[id]]
    /\ q' = [q EXCEPT !.kind = "deleted"]
    /\ UNCHANGED <<registry, manageFrame>>

\* deleteAlarm: deleteDoc(doc(db, "alarms", alarmId))
DeleteDoc ==
    /\ q.kind = "deleting"
    /\ alarms' = [x \in DOMAIN alarms \ {q.alarmId} |-> alarms[x]]
    /\ q' = [q EXCEPT !.kind = "deleted"]
    /\ UNCHANGED <<challenges, registry, manageFrame>>

\* handleToggleAlarm(alarmId, currentState): toggleAlarmEnabled writes the flag
ToggleWrite(a) ==
    /\ screensFree
    /\ a \in DOMAIN alarms
    /\ alarms' = [alarms EXCEPT ![a].isEnabled = ~alarms[a].isEnabled]
    /\ q' = [kind |-> "toggling", alarmId |-> a, isEnabled |-> ~alarms[a].isEnabled]
    /\ UNCHANGED <<challenges, registry, manageFrame>>

\* handleToggleAlarm: scheduleAlarmNotifications(toggledAlarm) when it was
\* switched on, cancelAlarmNotifications(alarmId) when it was switched off
ToggleNotify ==
    /\ q.kind = "toggling"
    /\ registry' = IF q.isEnabled
                   THEN scheduleAlarmNotifications(registry, q.alarmId,
                            [alarms[q.alarmId] EXCEPT !.isEnabled = TRUE], now, 0)
                   ELSE cancelAlarmNotifications(registry, q.alarmId)
    /\ q' = [q EXCEPT !.kind = "toggled"]
    /\ UNCHANGED <<storeVars, manageFrame>>

NextManage ==
    \/ Step(TRUE)
    \/ \E a \in AlarmIds : DeleteCancel(a)
    \/ DeleteDoc
    \/ \E a \in AlarmIds : ToggleWrite(a)
    \/ ToggleNotify

SpecManage == InitManage /\ [][NextManage]_vars

\* the alarm is deleted or disabled
Unavailable(a) == a \notin DOMAIN alarms \/ ~alarms[a].isEnabled

\* C11: when getAlarmById of markAlarmChallengeSuccess / markAlarmChallengeFailed
\* finds the alarm deleted or disabled, the terminal status has been written,
\* no reminder is registered and the call returns to its caller normally
C11_ResolutionOfUnavailableAlarm ==
    [][\A r \in 1..MaxResolvers :
          (/\ resolvers[r].pc = "read"
           /\ resolvers'[r] # resolvers[r]
           /\ Unavailable(resolvers[r].alarmId))
              => /\ Terminal(challenges'[resolvers[r].sentOutId].challengeStatus)
                 /\ registry' = registry
                 /\ resolvers'[r].pc = (IF resolvers[r].kind = "success" THEN "cancel" ELSE "idle")]_vars

C11_ResolvedAfterDelete ==
    \E r \in 1..MaxResolvers :
        /\ resolvers[r].pc = "cancel"
        /\ resolvers[r].alarm = <<>>
        /\ resolvers[r].alarmId \notin DOMAIN alarms
        /\ challenges[resolvers[r].sentOutId].challengeStatus = "success"

\* C18: deleteAlarm(alarmId) cancels every reminder of the alarm, then removes
\* the alarm document and no other, and neither step changes a challenge
\* document, pending ones of the deleted alarm included
C18_DeleteLeavesChallenges ==
    [][/\ (q.kind # "deleting" /\ q'.kind = "deleting") =>
             /\ challenges' = challenges
             /\ alarms' = alarms
             /\ \A id \in NotificationIds :
                   registry'[id] = IF id[2] = q'.alarmId THEN None ELSE registry[id]
       /\ (q.kind = "deleting" /\ q'.kind # "deleting") =>
             /\ challenges' = challenges
             /\ registry' = registry
             /\ DOMAIN alarms' = DOMAIN alarms \ {q.alarmId}
             /\ \A a \in DOMAIN alarms' : alarms'[a] = alarms[a]]_vars

C18_PendingOutlivesAlarm ==
    /\ q.kind = "deleted"
    /\ q.alarmId \notin DOMAIN alarms
    /\ RemindersOf(registry, q.alarmId) = {}
    /\ \E id \in DOMAIN challenges :
          challenges[id].alarmId = q.alarmId /\ challenges[id].challengeStatus = "pending"

----------------------------------------------------------------------------
(* The challenge flow with the app kept in the foreground: every reminder   *)
(* is handled by the received listener, the store answers every call, the   *)
(* interval keeps ticking and every alert is dismissed.  Only the typing of *)
(* a phrase is left to the user.                                            *)

LiveAlarms == ("a1" :> AlarmDoc(8, 0, {1}, TRUE)) @@ ("a2" :> AlarmDoc(8, 1, {1, 3}, TRUE))

InitLive ==
    /\ now = T0
    /\ alarms = LiveAlarms
    /\ challenges = <<>>
    /\ registry = rescheduleAllAlarms(alarms, T0)
    /\ tray = {}
    /\ activeAlarmId = NoAlarmId
    /\ activeAlarmPhrase = NoPhrase
    /\ alarmStartTime = None
    /\ sentOutId = None
    /\ attempts = 0
    /\ alertShown = FALSE
    /\ handlers = [h \in 1..MaxHandlers |-> IdleHandler]
    /\ resolvers = [r \in 1..MaxResolvers |-> IdleResolver]
    /\ lastLogged = [a \in AlarmIds |-> None]
    /\ lastCall = NoCall
    /\ q = NoQuery

\* no reminder the app observes fires before t (or at t, when strict)
NoneDueBefore(t, strict) ==
    \A x \in Scheduled :
        x[3] \in ObservedIndices => (IF strict THEN t < registry[x] ELSE t <= registry[x])

\* the reminders reach the received listener in the order of their dates
Receive ==
    \E id \in Scheduled : NoneDueBefore(registry[id], FALSE) /\ DeliverForeground(id, TRUE)
LogQuery == \E h \in 1..MaxHandlers : QueryReturns(h)
LogInsert == \E h \in 1..MaxHandlers : InsertReturns(h)
\* the interval ticks between the reminders
Countdown == \E t \in TickInstants : NoneDueBefore(t, TRUE) /\ Tick(t)
MarkWrite == \E r \in 1..MaxResolvers : ResolverWrite(r)
MarkRead == \E r \in 1..MaxResolvers : ResolverRead(r)
MarkSchedule == \E r \in 1..MaxResolvers : ResolverSchedule(r)
SubmitCancel == \E r \in 1..MaxResolvers : ResolverCancel(r)

NextLive ==
    \/ Receive
    \/ LogQuery
    \/ LogInsert
    \/ \E input \in Inputs : Submit(input)
    \/ Countdown
    \/ MarkWrite
    \/ MarkRead
    \/ MarkSchedule
    \/ SubmitCancel
    \/ PressOK

SpecLive ==
    /\ InitLive
    /\ [][NextLive]_vars
    /\ WF_vars(Receive)
    /\ WF_vars(LogQuery)
    /\ WF_vars(LogInsert)
    /\ WF_vars(Countdown)
    /\ WF_vars(MarkWrite)
    /\ WF_vars(MarkRead)
    /\ WF_vars(MarkSchedule)
    /\ WF_vars(SubmitCancel)
    /\ WF_vars(PressOK)

\* C12: every challenge document created pending eventually has status
\* success or failed; in particular the one of an alarm whose reminder was
\* handled while the challenge of another alarm was the active one
C12_PendingEventuallyResolved ==
    \A id \in 1..MaxChallenges :
        (/\ id \in DOMAIN challenges
         /\ challenges[id].challengeStatus = "pending"
         /\ activeAlarmId \notin {NoAlarmId, challenges[id].alarmId})
            ~> (id \in DOMAIN challenges /\ Terminal(challenges[id].challengeStatus))

\* C13: the burst of one occurrence (an alarm fires at most once a day)
\* creates one challenge document: no two documents of the same alarm are
\* sent on the same day, also when a reminder is handled after the status
\* write of the first and before the outstanding reminders are cancelled
C13_OneChallengePerOccurrence ==
    \A id1, id2 \in DOMAIN challenges :
        (/\ challenges[id1].alarmId = challenges[id2].alarmId
         /\ challenges[id1].sentAt \div DAY_MS = challenges[id2].sentAt \div DAY_MS)
            => id1 = id2

\* C20: a submission whose input does not validate changes no challenge
\* document and no reminder, and leaves the challenge open: its call writes
\* nothing, registers and cancels nothing, and only the attempt counter moves
C20_FailedSubmitWritesNothing ==
    [][\A r \in 1..MaxResolvers :
          (/\ resolvers[r].origin = "submit"
           /\ ~resolvers[r].isValid
           /\ resolvers'[r] # resolvers[r])
              => /\ challenges' = challenges
                 /\ registry' = registry]_vars

\* C21: a timeout resolves a challenge once: a tick calls
\* markAlarmChallengeFailed for a challenge only if no earlier tick has (none
\* is in flight for it and its status was not already written by one), and no
\* tick runs while the modal is dismissed
C21_TimeoutResolvesOnce ==
    [][/\ \A r \in 1..MaxResolvers :
             (/\ resolvers[r].pc = "idle"
              /\ resolvers'[r].pc = "write"
              /\ resolvers'[r].kind = "failed")
                 => /\ challenges[resolvers'[r].sentOutId].challengeStatus # "failed"
                    /\ \A other \in 1..MaxResolvers :
                          ~(/\ resolvers[other].kind = "failed"
                            /\ resolvers[other].sentOutId = resolvers'[r].sentOutId)
       /\ (~isVisible /\ now' # now) =>
             \A r \in 1..MaxResolvers : resolvers'[r] = resolvers[r]]_vars

\* C25: session recovery writes nothing to the store; when a pending
\* challenge was found the active challenge becomes that document's alarmId
\* and id, and when none was found the active challenge state stays as it is
C25_RecoveryWritesNothing ==
    [][/\ (q.kind = "none" /\ q'.kind = "recovering") =>
             /\ UNCHANGED <<storeVars, uiVars>>
             /\ q'.result # None =>
                   (q'.result \in PendingOfUser /\ q'.alarmId = challenges[q'.result].alarmId)
       /\ (q.kind = "recovering" /\ q'.kind = "recovered") =>
             /\ UNCHANGED storeVars
             /\ IF q.result # None
                THEN /\ activeAlarmId' = challenges[q.result].alarmId
                     /\ sentOutId' = q.result
                ELSE UNCHANGED uiVars]_vars

C25_RestoredWithoutNewRecord ==
    /\ q.kind = "recovered"
    /\ q.result # None
    /\ sentOutId = q.result
    /\ activeAlarmId = challenges[q.result].alarmId
    /\ Len(challenges) = MaxChallenges
    /\ challenges[q.result].challengeStatus = "pending"

\* C26: while a challenge is active, a step of a notification handler (a
\* delivery or tap starting one, or the return of its logAlarmSentOut, for
\* the same alarm or another) leaves activeAlarmId, the phrase, the countdown
\* origin and sentOutId as they are; the check of activeAlarmId and
\* setActiveAlarm happen in the same step
C26_ActiveChallengeIsKept ==
    [][(activeAlarmId # NoAlarmId /\ handlers' # handlers)
          => UNCHANGED <<activeAlarmId, activeAlarmPhrase, alarmStartTime, sentOutId>>]_vars

C26_OtherAlarmLoggedWhileActive ==
    /\ activeAlarmId # NoAlarmId
    /\ sentOutId # None
    /\ \E id \in DOMAIN challenges :
          /\ id > sentOutId
          /\ challenges[id].alarmId # activeAlarmId
          /\ challenges[id].challengeStatus = "pending"
          /\ lastLogged[challenges[id].alarmId] = id
    /\ \A h \in 1..MaxHandlers : handlers[h].pc = "idle"

\* C28: for an enabled alarm with a base instant, the identifiers
\* scheduleAlarmNotifications returns have indices 0..9 and the reminder of
\* index i fires at base + i * 17.5 s, so that consecutive reminders are
\* 17.5 s apart
C28_BurstIsEvenlySpaced ==
    (q # NoQuery /\ alarms["a1"].isEnabled /\ q.next # None) =>
        /\ q.ids \subseteq {getNotificationId("a1", i) : i \in 0..(NOTIFICATION_REPEATS - 1)}
        /\ \A id \in q.ids :
              registry[id] = q.next + (id[3] * REPEAT_INTERVAL_TENTHS * SECOND_MS) \div 10

----------------------------------------------------------------------------
(* The notification service with registrations and cancellations that fail: *)
(* Notifications.scheduleNotificationAsync / cancelScheduledNotificationAsync *)
(* reject for the indices of a set chosen by the environment.  An outcome   *)
(* holds the registry afterwards, the identifiers pushed to scheduledIds,   *)
(* the indices for which the device call was made, and whether an           *)
(* exception left the function.                                             *)

Outcome(reg) == [reg |-> reg, ids |-> {}, attempted |-> {}, raised |-> FALSE]

\* a test that never finds a date in the past
inThePastNever(date, clock) == FALSE

\* if (notificationDate <= new Date()) continue
inThePast(date, clock) == date <= clock

\* the device call outside any try block: a rejection leaves the function
registerReminderUncaught(acc, alarmId, i, date, failing) ==
    IF i \in failing
    THEN [acc EXCEPT !.attempted = @ \cup {i}, !.raised = TRUE]
    ELSE [acc EXCEPT !.reg = [@ EXCEPT ![getNotificationId(alarmId, i)] = date],
                     !.ids = @ \cup {getNotificationId(alarmId, i)},
                     !.attempted = @ \cup {i}]

\* try { await scheduleNotificationAsync(...); scheduledIds.push(identifier) }
\* catch (error) { console.error(...) }
registerReminder(acc, alarmId, i, date, failing) ==
    IF i \in failing
    THEN [acc EXCEPT !.attempted = @ \cup {i}]
    ELSE [acc EXCEPT !.reg = [@ EXCEPT ![getNotificationId(alarmId, i)] = date],
                     !.ids = @ \cup {getNotificationId(alarmId, i)},
                     !.attempted = @ \cup {i}]

\* the loop of scheduleAlarmNotifications; an exception ends it
RECURSIVE scheduleBurst(_, _, _, _, _, _, _)
scheduleBurst(acc, alarmId, baseDate, t, lag, failing, i) ==
    IF i >= NOTIFICATION_REPEATS \/ acc.raised THEN acc
    ELSE IF inThePast(notificationDate(baseDate, i), t + i * lag)
         THEN scheduleBurst(acc, alarmId, baseDate, t, lag, failing, i + 1)
         ELSE scheduleBurst(registerReminder(acc, alarmId, i, notificationDate(baseDate, i), failing),
                            alarmId, baseDate, t, lag, failing, i + 1)

\* scheduleAlarmNotifications(alarm) called at instant t
scheduleAlarmNotificationsOutcome(reg, alarmId, alarm, t, lag, failing) ==
    IF ~alarm.isEnabled THEN Outcome(reg)
    ELSE LET baseDate == getNextAlarmDate(alarm, t)
         IN IF baseDate = None THEN Outcome(reg)
            ELSE scheduleBurst(Outcome(reg), alarmId, baseDate, t, lag, failing, 0)

\* the cancellation outside any try block
cancelReminderUncaught(acc, alarmId, i, failing) ==
    IF i \in failing
    THEN [acc EXCEPT !.attempted = @ \cup {i}, !.raised = TRUE]
    ELSE [acc EXCEPT !.reg = [@ EXCEPT ![getNotificationId(alarmId, i)] = None],
                     !.attempted = @ \cup {i}]

\* try { await cancelScheduledNotificationAsync(identifier) } catch (error) { console.log(...) }
cancelReminder(acc, alarmId, i, failing) ==
    IF i \in failing
    THEN [acc EXCEPT !.attempted = @ \cup {i}]
    ELSE [acc EXCEPT !.reg = [@ EXCEPT ![getNotificationId(alarmId, i)] = None],
                     !.attempted = @ \cup {i}]

\* the loop of cancelAlarmNotifications
RECURSIVE cancelBurst(_, _, _, _)
cancelBurst(acc, alarmId, failing, i) ==
    IF i >= NOTIFICATION_REPEATS \/ acc.raised THEN acc
    ELSE cancelBurst(cancelReminder(acc, alarmId, i, failing), alarmId, failing, i + 1)

\* cancelAlarmNotifications(alarmId)
cancelAlarmNotificationsOutcome(reg, alarmId, failing) ==
    cancelBurst(Outcome(reg), alarmId, failing, 0)

\* Monday 07:59:00.000, 07:59:59.999 and 08:00:00.000
BurstInstants == {T0, T0 + MINUTE_MS - 1, T0 + MINUTE_MS}
\* time one iteration of the loop takes: none, the repeat interval, 20 s
BurstLags == {0, (REPEAT_INTERVAL_TENTHS * SECOND_MS) \div 10, 20 * SECOND_MS}
\* the indices at which the device call rejects
SampleFailing == {{}, {0}, {4}, {0, 9}, 0..(NOTIFICATION_REPEATS - 1)}

BurstAlarms == { ("a1" :> AlarmDoc(8, 0, d1, e1)) : d1 \in {{1}, {1, 2}}, e1 \in BOOLEAN }

InitBurst ==
    /\ now \in BurstInstants
    /\ alarms \in BurstAlarms
    /\ challenges = <<>>
    /\ registry \in {EmptyRegistry, StaleRegistry}
    /\ tray = {}
    /\ activeAlarmId = NoAlarmId
    /\ activeAlarmPhrase = NoPhrase
    /\ alarmStartTime = None
    /\ sentOutId = None
    /\ attempts = 0
    /\ alertShown = FALSE
    /\ handlers = [h \in 1..MaxHandlers |-> IdleHandler]
    /\ resolvers = [r \in 1..MaxResolvers |-> IdleResolver]
    /\ lastLogged = [a \in AlarmIds |-> None]
    /\ lastCall = NoCall
    /\ q = NoQuery

\* scheduleAlarmNotifications(alarm) runs to its return
CallScheduleFailing(lag, failing) ==
    /\ q = NoQuery
    /\ LET out == scheduleAlarmNotificationsOutcome(registry, "a1", alarms["a1"], now, lag, failing)
       IN /\ registry' = out.reg
          /\ q' = [kind |-> "burst", next |-> getNextAlarmDate(alarms["a1"], now),
                   ids |-> out.ids, attempted |-> out.attempted, raised |-> out.raised,
                   before |-> registry, lag |-> lag, failing |-> failing]
    /\ UNCHANGED registryFrame

\* cancelAlarmNotifications(alarmId) runs to its return
CallCancelFailing(failing) ==
    /\ q.kind \in {"none", "burst"}
    /\ LET out == cancelAlarmNotificationsOutcome(registry, "a1", failing)
       IN /\ registry' = out.reg
          /\ q' = [kind |-> "cancelBurst", next |-> None,
                   ids |-> out.ids, attempted |-> out.attempted, raised |-> out.raised,
                   before |-> registry, lag |-> 0, failing |-> failing]
    /\ UNCHANGED registryFrame

NextBurst ==
    \/ \E lag \in BurstLags, failing \in SampleFailing : CallScheduleFailing(lag, failing)
    \/ \E failing \in SampleFailing : CallCancelFailing(failing)

SpecBurst == InitBurst /\ [][NextBurst]_vars

\* the indices of a returned call whose date was after the clock of their iteration
DueAfterClock ==
    {i \in 0..(NOTIFICATION_REPEATS - 1) :
        /\ alarms["a1"].isEnabled
        /\ q.next # None
        /\ q.next + ((i * REPEAT_INTERVAL_TENTHS) \div 10) * SECOND_MS > now + i * q.lag}

\* C27: scheduleAlarmNotifications registers no reminder whose fire instant
\* is at or before the clock read in its iteration; such an index is passed
\* over without an exception and every later index is still examined
C27_NoReminderInThePast ==
    (q.kind = "burst") =>
        /\ ~q.raised
        /\ \A i \in 0..(NOTIFICATION_REPEATS - 1) :
              LET id == getNotificationId("a1", i)
              IN /\ (id \in q.ids \/ registry[id] # q.before[id]) => registry[id] > now + i * q.lag
                 /\ i \in q.attempted <=> i \in DueAfterClock

C27_SkippedThenRegistered ==
    /\ q.kind = "burst"
    /\ \E i, j \in 0..(NOTIFICATION_REPEATS - 1) :
          /\ i < j
          /\ i \notin q.attempted
          /\ registry[getNotificationId("a1", i)] = None
          /\ getNotificationId("a1", j) \in q.ids

\* C29: when the registration of some reminders fails,
\* scheduleAlarmNotifications still makes the device call for every index
\* that is not in the past, raises nothing, returns exactly the identifiers
\* whose registration succeeded, and the registry changes at those only
C29_FailedRegistrationIsPassedOver ==
    (q.kind = "burst") =>
        /\ ~q.raised
        /\ q.attempted = DueAfterClock
        /\ q.ids = {getNotificationId("a1", i) : i \in DueAfterClock \ q.failing}
        /\ \A id \in NotificationIds :
              registry[id] = IF id \in q.ids
                             THEN q.next + ((id[3] * REPEAT_INTERVAL_TENTHS) \div 10) * SECOND_MS
                             ELSE q.before[id]
        /\ q.failing = {} =>
              /\ registry = scheduleAlarmNotifications(q.before, "a1", alarms["a1"], now, q.lag)
              /\ q.ids = scheduledIds("a1", alarms["a1"], now, q.lag)

C29_FailureInTheMiddle ==
    /\ q.kind = "burst"
    /\ q.failing = {4}
    /\ 4 \in q.attempted
    /\ getNotificationId("a1", 4) \notin q.ids
    /\ getNotificationId("a1", 3) \in q.ids
    /\ getNotificationId("a1", 9) \in q.ids
    /\ Cardinality(q.ids) = NOTIFICATION_REPEATS - 1

\* C30: cancelAlarmNotifications makes the device call for each of the 10
\* identifiers of the alarm, whether or not some calls fail or their
\* reminder was never registered or has fired, and raises nothing
C30_CancellationCoversAllTen ==
    (q.kind = "cancelBurst") =>
        /\ ~q.raised
        /\ q.attempted = 0..(NOTIFICATION_REPEATS - 1)
        /\ \A id \in NotificationIds :
              registry[id] = IF id[2] = "a1" /\ id[3] \notin q.failing THEN None ELSE q.before[id]

C30_FailedAndAbsentCancelled ==
    /\ q.kind = "cancelBurst"
    /\ q.failing = {0, 9}
    /\ q.before[getNotificationId("a1", 0)] # None
    /\ registry[getNotificationId("a1", 0)] # None
    /\ q.before[getNotificationId("a1", 1)] = None
    /\ q.before[getNotificationId("a1", 2)] # None
    /\ registry[getNotificationId("a1", 2)] = None

----------------------------------------------------------------------------
(* The challenge flow with store calls that fail: getDocs, addDoc, updateDoc *)
(* and getDoc may reject.  q counts the failures and holds the last one.     *)

MaxFaults == 1         \* store calls that reject in one behaviour

NoFault == [kind |-> "fault", count |-> 0, what |-> "none", threw |-> FALSE,
            origin |-> "none", id |-> None, h |-> 0, len |-> 0]

FaultAlarms == ("a1" :> AlarmDoc(8, 0, {1, 2}, TRUE))

InitFault ==
    /\ now = T0
    /\ alarms = FaultAlarms
    /\ challenges = <<>>
    /\ registry = rescheduleAllAlarms(alarms, T0)
    /\ tray = {}
    /\ activeAlarmId = NoAlarmId
    /\ activeAlarmPhrase = NoPhrase
    /\ alarmStartTime = None
    /\ sentOutId = None
    /\ attempts = 0
    /\ alertShown = FALSE
    /\ handlers = [h \in 1..MaxHandlers |-> IdleHandler]
    /\ resolvers = [r \in 1..MaxResolvers |-> IdleResolver]
    /\ lastLogged = [a \in AlarmIds |-> None]
    /\ lastCall = NoCall
    /\ q = NoFault

\* a catch block that logs and returns
markSwallows == FALSE

\* the catch blocks of markAlarmChallengeSuccess / markAlarmChallengeFailed:
\* console.error(...); throw error
markRethrows == TRUE

\* getDocs of getExistingPendingChallenge rejects: its catch logs and returns
\* null, and logAlarmSentOut goes on to addDoc
QueryFails(h) ==
    /\ q.count < MaxFaults
    /\ handlers[h].pc = "query"
    /\ handlers' = [handlers EXCEPT ![h].pc = "insert"]
    /\ q' = [kind |-> "fault", count |-> q.count + 1, what |-> "query", threw |-> FALSE,
             origin |-> "log", id |-> None, h |-> h, len |-> Len(challenges)]
    /\ UNCHANGED <<now, storeVars, registry, tray, uiVars, alertShown, resolvers, histVars>>

\* addDoc of logAlarmSentOut rejects: its catch rethrows, and the catch of
\* handleNotificationAction logs; setActiveAlarm is not reached
InsertFails(h) ==
    /\ q.count < MaxFaults
    /\ handlers[h].pc = "insert"
    /\ handlers' = [handlers EXCEPT ![h] = IdleHandler]
    /\ q' = [kind |-> "fault", count |-> q.count + 1, what |-> "insert", threw |-> TRUE,
             origin |-> "log", id |-> None, h |-> h, len |-> Len(challenges)]
    /\ UNCHANGED <<now, storeVars, registry, tray, uiVars, alertShown, resolvers, histVars>>

\* the catch of the caller of markAlarmChallenge...: handleSubmit logs and
\* goes on to its "Success!" alert, handleTimeout logs and calls clearActiveAlarm
CallerCatches(r) ==
    /\ resolvers' = [resolvers EXCEPT ![r] = IdleResolver]
    /\ IF resolvers[r].origin = "submit"
       THEN /\ alertShown' = TRUE
            /\ UNCHANGED uiVars
       ELSE /\ activeAlarmId' = NoAlarmId
            /\ activeAlarmPhrase' = NoPhrase
            /\ alarmStartTime' = None
            /\ sentOutId' = None
            /\ UNCHANGED <<attempts, alertShown>>

\* updateDoc of markAlarmChallengeSuccess / markAlarmChallengeFailed rejects
WriteFails(r) ==
    /\ q.count < MaxFaults
    /\ resolvers[r].pc = "write"
    /\ IF markRethrows
       THEN CallerCatches(r)
       ELSE AfterMark(r) /\ UNCHANGED uiVars
    /\ q' = [kind |-> "fault", count |-> q.count + 1, what |-> "write", threw |-> markRethrows,
             origin |-> resolvers[r].origin, id |-> resolvers[r].sentOutId, h |-> 0,
             len |-> Len(challenges)]
    /\ UNCHANGED <<now, storeVars, registry, tray, handlers, histVars>>

\* getDoc of getAlarmById rejects: its catch rethrows, and so does the catch
\* of markAlarmChallenge...; the status has been written
ReadFails(r) ==
    /\ q.count < MaxFaults
    /\ resolvers[r].pc = "read"
    /\ IF markRethrows
       THEN CallerCatches(r)
       ELSE AfterMark(r) /\ UNCHANGED uiVars
    /\ q' = [kind |-> "fault", count |-> q.count + 1, what |-> "read", threw |-> markRethrows,
             origin |-> resolvers[r].origin, id |-> resolvers[r].sentOutId, h |-> 0,
             len |-> Len(challenges)]
    /\ UNCHANGED <<now, storeVars, registry, tray, handlers, histVars>>

NextFault ==
    \/ Step(TRUE)
    \/ \E h \in 1..MaxHandlers : QueryFails(h)
    \/ \E h \in 1..MaxHandlers : InsertFails(h)
    \/ \E r \in 1..MaxResolvers : WriteFails(r)
    \/ \E r \in 1..MaxResolvers : ReadFails(r)

SpecFault == InitFault /\ [][NextFault]_vars

\* the step in which a store call of the given kind rejects
Rejects(what) == q'.count > q.count /\ q'.what = what

\* C22: when the updateDoc of markAlarmChallengeSuccess /
\* markAlarmChallengeFailed fails, the error reaches the caller, the
\* challenge document is as it was (a pending one stays pending) and the
\* call registers no reminder
C22_FailedWritePropagates ==
    [][Rejects("write") =>
          /\ q'.threw
          /\ challenges' = challenges
          /\ registry' = registry
          /\ \E r \in 1..MaxResolvers :
                /\ resolvers[r].pc = "write"
                /\ resolvers[r].sentOutId = q'.id
                /\ resolvers'[r] = IdleResolver
                /\ \A other \in 1..MaxResolvers \ {r} : resolvers'[other] = resolvers[other]]_vars

C22_PendingAfterFailedWrite ==
    /\ q.what = "write"
    /\ q.threw
    /\ challenges[q.id].challengeStatus = "pending"
    /\ \A r \in 1..MaxResolvers : resolvers[r] = IdleResolver
    /\ RemindersOf(registry, challenges[q.id].alarmId) # {}

\* C23: when the store write of a resolution fails and the document is still
\* pending, no success alert is put up and the active challenge is not cleared
C23_NoSuccessWithoutPersistedStatus ==
    [][(Rejects("write") /\ challenges'[q'.id].challengeStatus = "pending") =>
          /\ alertShown' = alertShown
          /\ activeAlarmId' = activeAlarmId
          /\ sentOutId' = sentOutId]_vars

\* C24: when the pending lookup of logAlarmSentOut fails, the call ends with
\* that failure and creates no challenge document
C24_FailedLookupCreatesNothing ==
    [][(/\ q.what = "query"
        /\ handlers[q.h].pc = "insert"
        /\ Len(challenges) = q.len
        /\ handlers'[q.h] # handlers[q.h])
          => challenges' = challenges]_vars

----------------------------------------------------------------------------
(* Challenge records: fields and status *)

\* a resolution has filled a field of the record
IsSet(v) == v # None

\* C31: a Challenge record has completedAt and attemptsMade set if and only if
\* its status is success or failed, and a step that changes a record leaves its
\* userId, alarmId and sentAt as they were
C31_ResolutionFields ==
    /\ [](\A id \in DOMAIN challenges :
            /\ IsSet(challenges[id].completedAt) <=> Terminal(challenges[id].challengeStatus)
            /\ IsSet(challenges[id].attemptsMade) <=> Terminal(challenges[id].challengeStatus))
    /\ [][\A id \in DOMAIN challenges :
            /\ id \in DOMAIN challenges'
            /\ challenges'[id].userId = challenges[id].userId
            /\ challenges'[id].alarmId = challenges[id].alarmId
            /\ challenges'[id].sentAt = challenges[id].sentAt]_vars

\* a resolved record next to a pending one
C31_ResolvedAndPending ==
    \E id, other \in DOMAIN challenges :
        /\ Terminal(challenges[id].challengeStatus)
        /\ challenges[id].completedAt >= challenges[id].sentAt
        /\ challenges[id].attemptsMade >= 0
        /\ challenges[other].challengeStatus = "pending"
        /\ ~IsSet(challenges[other].completedAt)
        /\ ~IsSet(challenges[other].attemptsMade)

----------------------------------------------------------------------------
(* Recurrence chain *)

\* no operation in flight, no challenge on screen, no reminder due
Quiescent ==
    /\ \A h \in 1..MaxHandlers : handlers[h] = IdleHandler
    /\ \A r \in 1..MaxResolvers : resolvers[r] = IdleResolver
    /\ ~alertShown
    /\ activeAlarmId = NoAlarmId
    /\ \A id \in NotificationIds : registry[id] # None => registry[id] > now

\* the alarm has a reminder registered at a future instant
HasFutureReminder(a) ==
    \E i \in RemindersOf(registry, a) : registry[getNotificationId(a, i)] > now

\* C32: in every quiescent state every enabled alarm with selected days and
\* without a pending Challenge has a reminder registered at a future instant
C32_ChainNeverBreaks ==
    Quiescent =>
        \A a \in AlarmIds :
            (Schedulable(a) /\ PendingOf(a) = {}) => HasFutureReminder(a)

----------------------------------------------------------------------------
(* Reminders of disabled and deleted alarms *)

\* C33: in every quiescent state, with no delete or toggle in flight either,
\* the registry holds no reminder of an alarm that is disabled or deleted
C33_NoReminderOfUnavailableAlarm ==
    (Quiescent /\ q.kind \notin {"deleting", "toggling"}) =>
        \A a \in AlarmIds : Unavailable(a) => RemindersOf(registry, a) = {}

----------------------------------------------------------------------------
(* Launch by a tap on a notification: the launch check of the notification    *)
(* hook and checkPendingChallenge of the root layout both run, next to the    *)
(* challenge flow.  q holds the recovery query.                               *)

LaunchAlarms == ("a1" :> AlarmDoc(8, 0, {1, 2}, TRUE))

InitLaunch ==
    /\ now = T0
    /\ alarms = LaunchAlarms
    /\ challenges \in UNION {[1..n -> SampleChallenges] : n \in 0..1}
    /\ registry = rescheduleAllAlarms(alarms, T0)
    /\ tray = {"a1"}
    /\ activeAlarmId = NoAlarmId
    /\ activeAlarmPhrase = NoPhrase
    /\ alarmStartTime = None
    /\ sentOutId = None
    /\ attempts = 0
    /\ alertShown = FALSE
    /\ handlers = [h \in 1..MaxHandlers |-> IdleHandler]
    /\ resolvers = [r \in 1..MaxResolvers |-> IdleResolver]
    /\ lastLogged = [a \in AlarmIds |-> None]
    /\ lastCall = NoCall
    /\ q = NoQuery

NextLaunch ==
    \/ Step(TRUE)
    \/ RecoveryQuery
    \/ RecoverySet

SpecLaunch == InitLaunch /\ [][NextLaunch]_vars

\* C34: when checkPendingChallenge continues after its query while a challenge
\* is active, the active phrase and the countdown origin stay as they were
C34_RecoveryKeepsActiveChallenge ==
    [][(q.kind = "recovering" /\ q'.kind = "recovered" /\ activeAlarmId # NoAlarmId)
          => (activeAlarmPhrase' = activeAlarmPhrase /\ alarmStartTime' = alarmStartTime)]_vars

----------------------------------------------------------------------------
(* Reminder identifiers as the strings the template literal produces.  q      *)
(* holds the device's registry keyed by identifier string, and the last call. *)

DecimalDigits == <<"0", "1", "2", "3", "4", "5", "6", "7", "8", "9">>

\* `${index}`: the decimal digits of a non-negative integer
RECURSIVE toDecimal(_)
toDecimal(n) ==
    IF n < 10 THEN <<DecimalDigits[n + 1]>>
    ELSE toDecimal(n \div 10) \o <<DecimalDigits[(n % 10) + 1]>>

\* the identifier built from the index alone
notificationIdStringOfIndex(alarmId, index) ==
    <<"a", "l", "a", "r", "m", "-">> \o toDecimal(index)

\* getNotificationId: `alarm-${alarmId}-${index}`, character by character
notificationIdString(alarmId, index) ==
    <<"a", "l", "a", "r", "m", "-">> \o alarmId \o <<"-">> \o toDecimal(index)

\* alarm ids: document ids, among them ids that hold the separator and digits
SampleAlarmIdStrings ==
    { <<"a">>, <<"a", "-", "1">>, <<"a", "-">>, <<"1">>, <<"a", "1">> }

Indices == 0..(NOTIFICATION_REPEATS - 1)

IdentifierStrings == {notificationIdString(a, i) : a \in SampleAlarmIdStrings, i \in Indices}

\* the loop of scheduleAlarmNotifications over the identifier strings
RECURSIVE scheduleLoopByString(_, _, _, _, _, _)
scheduleLoopByString(reg, alarmId, baseDate, t, lag, i) ==
    IF i >= NOTIFICATION_REPEATS THEN reg
    ELSE IF notificationDate(baseDate, i) <= t + i * lag
         THEN scheduleLoopByString(reg, alarmId, baseDate, t, lag, i + 1)
         ELSE scheduleLoopByString(
                [reg EXCEPT ![notificationIdString(alarmId, i)] = notificationDate(baseDate, i)],
                alarmId, baseDate, t, lag, i + 1)

\* the loop of cancelAlarmNotifications over the identifier strings
RECURSIVE cancelLoopByString(_, _, _)
cancelLoopByString(reg, alarmId, i) ==
    IF i >= NOTIFICATION_REPEATS THEN reg
    ELSE cancelLoopByString([reg EXCEPT ![notificationIdString(alarmId, i)] = None], alarmId, i + 1)

\* every sampled alarm rings at 08:00 on Mondays and Tuesdays
IdentifierAlarm == AlarmDoc(8, 0, {1, 2}, TRUE)

\* time one iteration of the scheduling loop takes: none, or 20 s
IdentifierLags == {0, 20 * SECOND_MS}

InitIdentifier ==
    /\ now = T0 + MINUTE_MS - 1
    /\ alarms = ("a1" :> IdentifierAlarm)
    /\ challenges = <<>>
    /\ registry = EmptyRegistry
    /\ tray = {}
    /\ activeAlarmId = NoAlarmId
    /\ activeAlarmPhrase = NoPhrase
    /\ alarmStartTime = None
    /\ sentOutId = None
    /\ attempts = 0
    /\ alertShown = FALSE
    /\ handlers = [h \in 1..MaxHandlers |-> IdleHandler]
    /\ resolvers = [r \in 1..MaxResolvers |-> IdleResolver]
    /\ lastLogged = [a \in AlarmIds |-> None]
    /\ lastCall = NoCall
    /\ q = [kind |-> "none", alarmId |-> <<>>, reg |-> [id \in IdentifierStrings |-> None]]

identifierFrame == <<now, storeVars, registry, tray, uiVars, alertShown, handlers, resolvers, histVars>>

\* scheduleAlarmNotifications(alarm) for the alarm whose id is a
CallScheduleByString(a, lag) ==
    /\ q' = [kind |-> "schedule", alarmId |-> a,
             reg |-> scheduleLoopByString(q.reg, a, getNextAlarmDate(IdentifierAlarm, now), now, lag, 0)]
    /\ UNCHANGED identifierFrame

\* cancelAlarmNotifications(a)
CallCancelByString(a) ==
    /\ q' = [kind |-> "cancel", alarmId |-> a, reg |-> cancelLoopByString(q.reg, a, 0)]
    /\ UNCHANGED identifierFrame

NextIdentifier ==
    \/ \E a \in SampleAlarmIdStrings, lag \in IdentifierLags : CallScheduleByString(a, lag)
    \/ \E a \in SampleAlarmIdStrings : CallCancelByString(a)

SpecIdentifier == InitIdentifier /\ [][NextIdentifier]_vars

\* the reminders registered under the identifiers of an alarm
RemindersByString(reg, a) == {i \in Indices : reg[notificationIdString(a, i)] # None}

\* C36: distinct (alarmId, index) pairs with index in 0..9 have distinct
\* identifiers, and a cancelAlarmNotifications or scheduleAlarmNotifications
\* call for an alarm leaves the registered reminders of every other alarm as
\* they were
C36_OtherAlarmsUntouched ==
    /\ [](\A a, b \in SampleAlarmIdStrings : \A i, j \in Indices :
            notificationIdString(a, i) = notificationIdString(b, j) => (a = b /\ i = j))
    /\ [][\A b \in SampleAlarmIdStrings \ {q'.alarmId} : \A j \in Indices :
            q'.reg[notificationIdString(b, j)] = q.reg[notificationIdString(b, j)]]_vars

\* the reminders of "a" have just been cancelled and the bursts of "a-1", "a-"
\* and "a1" are registered in full
C36_CancelledNextToOthers ==
    /\ q.kind = "cancel"
    /\ q.alarmId = <<"a">>
    /\ RemindersByString(q.reg, <<"a">>) = {}
    /\ RemindersByString(q.reg, <<"a", "-", "1">>) = Indices
    /\ RemindersByString(q.reg, <<"a", "-">>) = Indices
    /\ RemindersByString(q.reg, <<"a", "1">>) = Indices

----------------------------------------------------------------------------
(* The alarm screens alone: create, update, toggle and delete, one call at a  *)
(* time, with time passing during and between the calls.  q holds the call.   *)

EditAlarms == { ("a1" :> AlarmDoc(8, 0, d1, e1)) : d1 \in {{1}, {1, 2}}, e1 \in BOOLEAN }

\* what the user may pick on the time and day pickers
EditChoices ==
    { [hours |-> 7, minutes |-> 0, selectedDays |-> {1}],
      [hours |-> 8, minutes |-> 10, selectedDays |-> {1, 2}],
      [hours |-> 8, minutes |-> 10, selectedDays |-> {}] }

\* Monday 08:01 (inside the 08:00 burst) and Tuesday 12:00
EditInstants == {T0 + 2 * MINUTE_MS, 2 * DAY_MS + 12 * HOUR_MS}

InitEdit ==
    /\ now = T0
    /\ alarms \in EditAlarms
    /\ challenges = <<>>
    /\ registry = rescheduleAllAlarms(alarms, T0)
    /\ tray = {}
    /\ activeAlarmId = NoAlarmId
    /\ activeAlarmPhrase = NoPhrase
    /\ alarmStartTime = None
    /\ sentOutId = None
    /\ attempts = 0
    /\ alertShown = FALSE
    /\ handlers = [h \in 1..MaxHandlers |-> IdleHandler]
    /\ resolvers = [r \in 1..MaxResolvers |-> IdleResolver]
    /\ lastLogged = [a \in AlarmIds |-> None]
    /\ lastCall = NoCall
    /\ q = NoQuery

\* no call of the alarm screens is in flight (the screens show a spinner)
editFree ==
    q.kind \notin {"creating", "updateCancel", "updateRead", "updateSchedule", "deleting", "toggling"}

\* handleSaveAlarm -> createAlarm: addDoc with isEnabled: true
CreateWrite(a, choice) ==
    /\ editFree
    /\ a \notin DOMAIN alarms
    /\ choice.selectedDays # {}
    /\ LET newAlarm == AlarmDoc(choice.hours, choice.minutes, choice.selectedDays, TRUE)
       IN /\ alarms' = [x \in DOMAIN alarms \cup {a} |-> IF x = a THEN newAlarm ELSE alarms[x]]
          /\ q' = [kind |-> "creating", alarmId |-> a, alarm |-> <<newAlarm>>]
    /\ UNCHANGED <<challenges, registry, manageFrame>>

\* createAlarm: scheduleAlarmNotifications(newAlarm)
CreateSchedule ==
    /\ q.kind = "creating"
    /\ registry' = scheduleAlarmNotifications(registry, q.alarmId, q.alarm[1], now, 0)
    /\ q' = [q EXCEPT !.kind = "created"]
    /\ UNCHANGED <<storeVars, manageFrame>>

\* handleUpdateAlarm -> updateAlarm: updateDoc of hours, minutes, selectedDays
UpdateWrite(a, choice) ==
    /\ editFree
    /\ a \in DOMAIN alarms
    /\ choice.selectedDays # {}
    /\ alarms' = [alarms EXCEPT ![a].hours = choice.hours,
                                ![a].minutes = choice.minutes,
                                ![a].selectedDays = choice.selectedDays]
    /\ q' = [kind |-> "updateCancel", alarmId |-> a, updates |-> choice,
             before |-> RemindersOf(registry, a), alarm |-> <<>>]
    /\ UNCHANGED <<challenges, registry, manageFrame>>

\* updateAlarm going on to getAlarmById without cancelling
UpdateCancelSkipped ==
    /\ q.kind = "updateCancel"
    /\ q' = [q EXCEPT !.kind = "updateRead"]
    /\ UNCHANGED <<storeVars, registry, manageFrame>>

\* updateAlarm: cancelAlarmNotifications(alarmId)
UpdateCancel ==
    /\ q.kind = "updateCancel"
    /\ registry' = cancelAlarmNotifications(registry, q.alarmId)
    /\ q' = [q EXCEPT !.kind = "updateRead"]
    /\ UNCHANGED <<storeVars, manageFrame>>

\* updateAlarm: getAlarmById(alarmId) returns; if (updatedAlarm && updatedAlarm.isEnabled)
UpdateRead ==
    /\ q.kind = "updateRead"
    /\ LET updatedAlarm == getAlarmById(alarms, q.alarmId)
       IN q' = [q EXCEPT !.alarm = updatedAlarm,
                         !.kind = IF updatedAlarm # <<>> /\ updatedAlarm[1].isEnabled
                                  THEN "updateSchedule" ELSE "updated"]
    /\ UNCHANGED <<storeVars, registry, manageFrame>>

\* updateAlarm: scheduleAlarmNotifications(updatedAlarm)
UpdateSchedule ==
    /\ q.kind = "updateSchedule"
    /\ registry' = scheduleAlarmNotifications(registry, q.alarmId, q.alarm[1], now, 0)
    /\ q' = [q EXCEPT !.kind = "updated"]
    /\ UNCHANGED <<storeVars, manageFrame>>

\* time passes: the reminders due by t are delivered
Elapse(t) ==
    /\ t > now
    /\ AdvanceTo(t)
    /\ UNCHANGED <<storeVars, uiVars, alertShown, handlers, resolvers, histVars, q>>

\* the switch of an alarm card is used while no other call is in flight
EditToggle(a) == editFree /\ ToggleWrite(a)

\* Delete is confirmed on the edit screen while no other call is in flight
EditDelete(a) == editFree /\ DeleteCancel(a)

NextEdit ==
    \/ \E a \in AlarmIds, choice \in EditChoices : CreateWrite(a, choice)
    \/ CreateSchedule
    \/ \E a \in AlarmIds, choice \in EditChoices : UpdateWrite(a, choice)
    \/ UpdateCancel
    \/ UpdateRead
    \/ UpdateSchedule
    \/ \E a \in AlarmIds : EditToggle(a)
    \/ ToggleNotify
    \/ \E a \in AlarmIds : EditDelete(a)
    \/ DeleteDoc
    \/ \E t \in EditInstants : Elapse(t)

SpecEdit == InitEdit /\ [][NextEdit]_vars

\* the reminder registered at date under index i belongs to a burst whose
\* first reminder is at hours:minutes:00.000 on a selected day
ComputedFrom(date, i, hours, minutes, selectedDays) ==
    LET baseDate == date - notificationDate(0, i)
    IN /\ baseDate % DAY_MS = hours * HOUR_MS + minutes * MINUTE_MS
       /\ getDay(baseDate) \in selectedDays

\* C37: when updateAlarm(alarmId, {hours, minutes, selectedDays}) completes,
\* every reminder the registry holds for the alarm is computed from the new
\* hours, minutes and selectedDays if the alarm is enabled, and the registry
\* holds none if it is disabled
C37_UpdateLeavesOnlyNewReminders ==
    [][(q.kind \in {"updateRead", "updateSchedule"} /\ q'.kind = "updated") =>
          LET a == q'.alarmId
          IN IF a \in DOMAIN alarms' /\ alarms'[a].isEnabled
             THEN \A i \in RemindersOf(registry', a) :
                     ComputedFrom(registry'[getNotificationId(a, i)], i,
                                  q'.updates.hours, q'.updates.minutes, q'.updates.selectedDays)
             ELSE RemindersOf(registry', a) = {}]_vars

\* an update to 08:10 has completed inside the 08:00 burst: the reminders left
\* of that burst are gone and the 08:10 burst is registered
C37_UpdatedInsideBurst ==
    /\ q.kind = "updated"
    /\ q.before # {}
    /\ now = T0 + 2 * MINUTE_MS
    /\ q.updates.minutes = 10
    /\ RemindersOf(registry, q.alarmId) = 0..(NOTIFICATION_REPEATS - 1)
    /\ registry[getNotificationId(q.alarmId, 0)] = T0 + 11 * MINUTE_MS

\* C38: when a toggle completes, the stored isEnabled flag is the new state;
\* if the alarm was switched on and has selected days the registry holds the
\* burst of the alarm's next occurrence, and if it was switched off the
\* registry holds no reminder of the alarm
C38_ToggleLeavesRegistryRight ==
    [][(q.kind = "toggling" /\ q'.kind = "toggled") =>
          LET a == q'.alarmId
          IN /\ alarms'[a].isEnabled = q'.isEnabled
             /\ IF q'.isEnabled /\ alarms'[a].selectedDays # {}
                THEN /\ RemindersOf(registry', a) # {}
                     /\ \A i \in RemindersOf(registry', a) :
                           registry'[getNotificationId(a, i)]
                               = notificationDate(EarliestAfter(alarms'[a], now'), i)
                ELSE RemindersOf(registry', a) = {}]_vars
====
